---- MODULE Spec2Model ----
(***************************************************************************)
(* kagaribi build/deploy orchestration core: package scanner and resolver, *)
(* build planner, deploy orchestrator and the text editor of               *)
(* kagaribi.config.ts.                                                     *)
(*                                                                         *)
(* Text is modelled character by character: a string is a sequence of     *)
(* one-character strings and positions are 0-based as in JavaScript.      *)
(***************************************************************************)
EXTENDS Integers, Sequences, FiniteSets, TLC

\* ------------------------------------------------------------------------
\* Strings
\* ------------------------------------------------------------------------

\* the JavaScript value undefined (no text is equal to it)
Undef ==
    <<"undefined">>

\* JavaScript truthiness of an optional string: neither undefined nor ''
Truthy(v) ==
    v # Undef /\ v # <<>>

MinOf(S) ==
    CHOOSE x \in S : \A y \in S : x <= y

\* content[i]; "" stands for the undefined of an out-of-range index
At(s, i) ==
    IF i >= 0 /\ i < Len(s) THEN s[i + 1] ELSE ""

\* s.slice(a, b)
Slice(s, a, b) ==
    LET bb == IF b < Len(s) THEN b ELSE Len(s)
    IN  IF a >= bb THEN <<>> ELSE SubSeq(s, a + 1, bb)

\* s.indexOf(pat, from)
IndexOf(s, pat, from) ==
    LET lo == IF from < 0 THEN 0 ELSE from
        hits == {i \in lo..(Len(s) - Len(pat)) : SubSeq(s, i + 1, i + Len(pat)) = pat}
    IN  IF hits = {} THEN -1 ELSE MinOf(hits)

\* s.includes(pat)
Includes(s, pat) ==
    IndexOf(s, pat, 0) >= 0

StartsWithAt(s, pat, i) ==
    i >= 0 /\ i + Len(pat) <= Len(s) /\ SubSeq(s, i + 1, i + Len(pat)) = pat

Letters ==
    {"a","b","c","d","e","f","g","h","i","j","k","l","m","n","o","p","q","r",
     "s","t","u","v","w","x","y","z","A","B","C","D","E","F","G","H","I","J",
     "K","L","M","N","O","P","Q","R","S","T","U","V","W","X","Y","Z"}

Digits ==
    {"0","1","2","3","4","5","6","7","8","9"}

\* the regular expression class \w
WordChars ==
    Letters \cup Digits \cup {"_"}

\* the regular expression class \s
SpaceChars ==
    {" ", "\n", "\t", "\r"}

QuoteChars ==
    {"'", "\""}

\* the backquote character that delimits a template literal (spelled out:
\* the TLA+ lexer does not take that character inside a string)
BackQuote ==
    "backquote"

\* end of the maximal run of \s characters that starts at i
RECURSIVE WsEnd(_, _)
WsEnd(s, i) ==
    IF At(s, i) \in SpaceChars THEN WsEnd(s, i + 1) ELSE i

\* the regular expression assertion \b at position i
WordBoundary(s, i) ==
    (At(s, i - 1) \in WordChars) # (At(s, i) \in WordChars)

RECURSIVE Join(_, _)
Join(parts, sep) ==
    IF parts = <<>> THEN <<>>
    ELSE IF Len(parts) = 1 THEN parts[1]
    ELSE parts[1] \o sep \o Join(Tail(parts), sep)

S_packages ==
    <<"p","a","c","k","a","g","e","s",":">>

S_target ==
    <<"t","a","r","g","e","t",":"," ","'">>

S_colocateWith ==
    <<"c","o","l","o","c","a","t","e","W","i","t","h",":"," ","'">>

S_url ==
    <<"u","r","l",":"," ","'">>

DefaultIndent ==
    <<" "," "," "," ">>

\* ------------------------------------------------------------------------
\* Config Mutator (config-updater.ts)
\* ------------------------------------------------------------------------

\* first position from i on that holds one of chars, or the length
NextOf(s, i, chars) ==
    LET hits == {j \in i..(Len(s) - 1) : At(s, j) \in chars}
    IN  IF hits = {} THEN Len(s) ELSE MinOf(hits)

\* mutant: a backslash does not escape the character after it
SkipQuoted_NoEscape(content, i, q) ==
    IF i > Len(content) THEN i ELSE NextOf(content, i, {q})

\* inner loop of a quoted string or template literal: stops on the closing
\* quote or past the end of the text.  Characters that are neither the quote
\* nor a backslash are stepped over in one go.
RECURSIVE SkipQuoted(_, _, _)
SkipQuoted(content, i, q) ==
    LET j == NextOf(content, i, {q, "\\"})
    IN  IF j < Len(content) /\ At(content, j) # q
        THEN SkipQuoted(content, j + 2, q)
        ELSE IF i > Len(content) THEN i ELSE j

\* the while loop of findPackagesBlock; yields i and depth at loop exit.
\* Characters that start no comment, string or brace only advance i and
\* are stepped over in one go.
RECURSIVE ScanBraces(_, _, _)
ScanBraces(content, i, depth) ==
    IF ~(i < Len(content) /\ depth > 0)
    THEN [i |-> i, depth |-> depth]
    ELSE LET ch == At(content, i)
         IN  IF ch = "/" /\ At(content, i + 1) = "/"
             THEN LET eol == IndexOf(content, <<"\n">>, i)
                  IN  ScanBraces(content, IF eol = -1 THEN Len(content) ELSE eol + 1, depth)
             ELSE IF ch = "/" /\ At(content, i + 1) = "*"
             THEN LET end == IndexOf(content, <<"*","/">>, i + 2)
                  IN  ScanBraces(content, IF end = -1 THEN Len(content) ELSE end + 2, depth)
             ELSE IF ch \in QuoteChars
             THEN ScanBraces(content, SkipQuoted(content, i + 1, ch) + 1, depth)
             ELSE IF ch = BackQuote
             THEN ScanBraces(content, SkipQuoted(content, i + 1, BackQuote) + 1, depth)
             ELSE IF ch = "{" THEN ScanBraces(content, i + 1, depth + 1)
             ELSE IF ch = "}" THEN ScanBraces(content, i + 1, depth - 1)
             ELSE ScanBraces(content,
                             NextOf(content, i + 1, QuoteChars \cup {"/", BackQuote, "{", "}"}),
                             depth)

\* mutant: the depth reached at the end of the text is not checked
findPackagesBlock_NoDepthCheck(content) ==
    LET packagesIdx == IndexOf(content, S_packages, 0)
        openBrace == IndexOf(content, <<"{">>, packagesIdx)
        scan == ScanBraces(content, openBrace + 1, 1)
    IN  IF packagesIdx = -1
        THEN [ok |-> FALSE, err |-> "no packages:", start |-> -1, end |-> -1]
        ELSE IF openBrace = -1
        THEN [ok |-> FALSE, err |-> "no opening brace", start |-> -1, end |-> -1]
        ELSE [ok |-> TRUE, err |-> "", start |-> openBrace + 1, end |-> scan.i - 1]

\* findPackagesBlock: ok = FALSE stands for the thrown Error
findPackagesBlock(content) ==
    LET packagesIdx == IndexOf(content, S_packages, 0)
        openBrace == IndexOf(content, <<"{">>, packagesIdx)
        scan == ScanBraces(content, openBrace + 1, 1)
    IN  IF packagesIdx = -1
        THEN [ok |-> FALSE, err |-> "no packages:", start |-> -1, end |-> -1]
        ELSE IF openBrace = -1
        THEN [ok |-> FALSE, err |-> "no opening brace", start |-> -1, end |-> -1]
        ELSE IF scan.depth # 0
        THEN [ok |-> FALSE, err |-> "no closing brace", start |-> -1, end |-> -1]
        ELSE [ok |-> TRUE, err |-> "", start |-> openBrace + 1, end |-> scan.i - 1]

\* detectIndent: content.slice(blockStart).match(/\n(\s+)\w/)
detectIndent(content, blockStart) ==
    LET hits == {n \in blockStart..(Len(content) - 1) :
                    /\ At(content, n) = "\n"
                    /\ WsEnd(content, n + 1) > n + 1
                    /\ At(content, WsEnd(content, n + 1)) \in WordChars}
    IN  IF hits = {} THEN DefaultIndent
        ELSE Slice(content, MinOf(hits) + 1, WsEnd(content, MinOf(hits) + 1))

\* formatObjectKey: /^[a-zA-Z_$][a-zA-Z0-9_$]*$/ decides bare or quoted
formatObjectKey(name) ==
    IF /\ Len(name) > 0
       /\ name[1] \in Letters \cup {"_", "$"}
       /\ \A k \in 2..Len(name) : name[k] \in Letters \cup Digits \cup {"_", "$"}
    THEN name
    ELSE <<"'">> \o name \o <<"'">>

\* configToString
configToString(config) ==
    LET parts ==
            (IF Truthy(config.target)
             THEN << S_target \o config.target \o <<"'">> >> ELSE <<>>)
            \o (IF Truthy(config.colocateWith)
                THEN << S_colocateWith \o config.colocateWith \o <<"'">> >> ELSE <<>>)
            \o (IF Truthy(config.url)
                THEN << S_url \o config.url \o <<"'">> >> ELSE <<>>)
    IN  <<"{", " ">> \o Join(parts, <<",", " ">>) \o <<" ", "}">>

\* (?:['"]KEY['"]|KEY) tried at position k: the position after the key, or
\* -1.  escapeRegExp makes every character of the key match literally.
\* wordStart adds the \b of the bare alternative.
KeyEndAt(block, key, k, wordStart) ==
    IF /\ At(block, k) \in QuoteChars
       /\ StartsWithAt(block, key, k + 1)
       /\ At(block, k + 1 + Len(key)) \in QuoteChars
    THEN k + Len(key) + 2
    ELSE IF StartsWithAt(block, key, k) /\ (wordStart => WordBoundary(block, k))
    THEN k + Len(key)
    ELSE -1

\* existingPattern.test(packagesBlock):
\* (?:['"]KEY['"]|\bKEY)\s*:
ExistingPatternTest(block, key) ==
    \E k \in 0..Len(block) :
        LET ke == KeyEndAt(block, key, k, TRUE)
        IN  ke # -1 /\ At(block, WsEnd(block, ke)) = ":"

\* end of a match of (?:['"]KEY['"]|KEY)\s*:\s*\{[^}]*\}\s*,? at k, or -1
EntryEndAt(block, key, k) ==
    LET ke == KeyEndAt(block, key, k, FALSE)
        colon == WsEnd(block, ke)
        open == WsEnd(block, colon + 1)
        close == IndexOf(block, <<"}">>, open + 1)
        ws == WsEnd(block, close + 1)
    IN  IF ke = -1 \/ At(block, colon) # ":" \/ At(block, open) # "{" \/ close = -1
        THEN -1
        ELSE IF At(block, ws) = "," THEN ws + 1 ELSE ws

\* packagesBlock.match(entryPattern): leftmost match of
\* (\s*)(?:['"]KEY['"]|KEY)\s*:\s*\{[^}]*\}\s*,?
EntryPatternMatch(block, key) ==
    LET starts == {s \in 0..Len(block) : EntryEndAt(block, key, WsEnd(block, s)) # -1}
        s0 == MinOf(starts)
    IN  IF starts = {}
        THEN [found |-> FALSE, index |-> -1, indent |-> <<>>, end |-> -1]
        ELSE [found |-> TRUE, index |-> s0,
              indent |-> Slice(block, s0, WsEnd(block, s0)),
              end |-> EntryEndAt(block, key, WsEnd(block, s0))]

\* updateConfigAddPackage on a file holding content.  threw: an Error was
\* thrown; writes: the contents passed to writeFile, in order.
updateConfigAddPackage(content, packageName, config) ==
    LET blk == findPackagesBlock(content)
        packagesBlock == Slice(content, blk.start, blk.end)
        indent == detectIndent(content, blk.start)
        key == formatObjectKey(packageName)
        configStr == configToString(config)
        newEntry == indent \o key \o <<":", " ">> \o configStr \o <<",", "\n">>
        beforeClose == Slice(content, 0, blk.end)
        afterClose == Slice(content, blk.end, Len(content))
        separator == IF Len(beforeClose) > 0 /\ beforeClose[Len(beforeClose)] = "\n"
                     THEN <<>> ELSE <<"\n">>
        updated == beforeClose \o separator \o newEntry \o afterClose
    IN  IF ~blk.ok
        THEN [threw |-> TRUE, err |-> blk.err, writes |-> <<>>]
        ELSE IF ExistingPatternTest(packagesBlock, packageName)
        THEN [threw |-> TRUE, err |-> "already exists", writes |-> <<>>]
        ELSE [threw |-> FALSE, err |-> "", writes |-> <<updated>>]

\* updateConfigSetDeployResult on a file holding content
updateConfigSetDeployResult(content, packageName, target, url) ==
    LET config == [target |-> target, colocateWith |-> Undef, url |-> url]
        configStr == configToString(config)
        key == formatObjectKey(packageName)
        blk == findPackagesBlock(content)
        packagesBlock == Slice(content, blk.start, blk.end)
        match == EntryPatternMatch(packagesBlock, packageName)
        replacement == match.indent \o key \o <<":", " ">> \o configStr \o <<",">>
        updatedBlock == Slice(packagesBlock, 0, match.index) \o replacement
                        \o Slice(packagesBlock, match.end, Len(packagesBlock))
        updated == Slice(content, 0, blk.start) \o updatedBlock
                   \o Slice(content, blk.end, Len(content))
    IN  IF ~blk.ok
        THEN [threw |-> TRUE, err |-> blk.err, writes |-> <<>>]
        ELSE IF match.found
        THEN [threw |-> FALSE, err |-> "", writes |-> <<updated>>]
        ELSE updateConfigAddPackage(content, packageName, config)

\* ------------------------------------------------------------------------
\* Loading kagaribi.config.ts (the dynamic import of loadConfig)
\* ------------------------------------------------------------------------

S_defineConfig ==
    <<"d","e","f","i","n","e","C","o","n","f","i","g","(">>

K_packages ==
    <<"p","a","c","k","a","g","e","s">>

K_environments ==
    <<"e","n","v","i","r","o","n","m","e","n","t","s">>

K_target ==
    <<"t","a","r","g","e","t">>

K_colocateWith ==
    <<"c","o","l","o","c","a","t","e","W","i","t","h">>

K_url ==
    <<"u","r","l">>

K_star ==
    <<"*">>

T_node ==
    <<"n","o","d","e">>

T_deno ==
    <<"d","e","n","o">>

IsPrefix(p, q) ==
    Len(p) <= Len(q) /\ SubSeq(q, 1, Len(p)) = p

\* white space and comments between two tokens of the object literal
RECURSIVE SkipTrivia(_, _)
SkipTrivia(c, i) ==
    IF At(c, i) \in SpaceChars THEN SkipTrivia(c, WsEnd(c, i))
    ELSE IF At(c, i) = "/" /\ At(c, i + 1) = "/"
    THEN LET eol == IndexOf(c, <<"\n">>, i)
         IN  IF eol = -1 THEN Len(c) ELSE SkipTrivia(c, eol + 1)
    ELSE IF At(c, i) = "/" /\ At(c, i + 1) = "*"
    THEN LET end == IndexOf(c, <<"*","/">>, i + 2)
         IN  IF end = -1 THEN Len(c) ELSE SkipTrivia(c, end + 2)
    ELSE i

RECURSIVE IdentEnd(_, _)
IdentEnd(c, i) ==
    IF At(c, i) \in Letters \cup Digits \cup {"_", "$"} THEN IdentEnd(c, i + 1) ELSE i

\* a quoted string literal whose opening quote is at i
ReadString(c, i) ==
    LET close == IndexOf(c, <<At(c, i)>>, i + 1)
    IN  IF close = -1
        THEN [ok |-> FALSE, value |-> <<>>, next |-> Len(c)]
        ELSE [ok |-> TRUE, value |-> Slice(c, i + 1, close), next |-> close + 1]

\* a property key, bare or quoted, at i
ReadKey(c, i) ==
    IF At(c, i) \in QuoteChars THEN ReadString(c, i)
    ELSE IF At(c, i) \in Letters \cup {"_", "$"}
    THEN [ok |-> TRUE, value |-> Slice(c, i, IdentEnd(c, i)), next |-> IdentEnd(c, i)]
    ELSE [ok |-> FALSE, value |-> <<>>, next |-> i]

\* the one element of a one-element set; {F(x) : x \in {e}} gives F the
\* value of e, computed once
Once(S) ==
    CHOOSE x \in S : TRUE

ParseFail ==
    [ok |-> FALSE, next |-> -1, leaves |-> {}, spans |-> {}]

\* The members of an object literal from position i up to its closing brace.
\* leaves: <<path of keys, string value>> of every string property;
\* spans: the text range of every property, from the first character of its
\* key to the end of its value and the comma that directly follows it.
\* A key given twice keeps its last value, as in JavaScript.
RECURSIVE ParseMembers(_, _, _, _)
ParseMembers(c, i, path, acc) ==
    LET j == SkipTrivia(c, i)
    IN  IF At(c, j) = "}"
        THEN [ok |-> TRUE, next |-> j + 1, leaves |-> acc.leaves, spans |-> acc.spans]
        ELSE
        LET key == ReadKey(c, j)
            colon == SkipTrivia(c, key.next)
            v == SkipTrivia(c, colon + 1)
            p == Append(path, key.value)
            cleared == [leaves |-> {l \in acc.leaves : ~IsPrefix(p, l[1])},
                        spans |-> {s \in acc.spans : ~IsPrefix(p, s.path)}]
            Rest(val) ==
                LET to == IF At(c, val.next) = "," THEN val.next + 1 ELSE val.next
                    after == SkipTrivia(c, val.next)
                    withSpan == [leaves |-> val.leaves,
                                 spans |-> val.spans
                                    \cup {[path |-> p, from |-> j, to |-> to]}]
                IN  IF ~val.ok THEN ParseFail
                    ELSE IF At(c, after) = ","
                    THEN ParseMembers(c, after + 1, path, withSpan)
                    ELSE IF At(c, after) = "}"
                    THEN ParseMembers(c, after, path, withSpan)
                    ELSE ParseFail
        IN  IF ~key.ok \/ At(c, colon) # ":" THEN ParseFail
            ELSE IF At(c, v) = "{"
            THEN Once({Rest(val) : val \in {ParseMembers(c, v + 1, p, cleared)}})
            ELSE IF At(c, v) \in QuoteChars
            THEN Once({Rest([ok |-> str.ok, next |-> str.next,
                             leaves |-> cleared.leaves \cup {<<p, str.value>>},
                             spans |-> cleared.spans]) :
                          str \in {ReadString(c, v)}})
            ELSE ParseFail

\* the object literal passed to defineConfig( ... )
ParseConfig(c) ==
    LET d == IndexOf(c, S_defineConfig, 0)
        open == SkipTrivia(c, d + Len(S_defineConfig))
    IN  IF d = -1 \/ At(c, open) # "{" THEN ParseFail
        ELSE Once({IF obj.ok /\ At(c, SkipTrivia(c, obj.next)) # ")"
                   THEN ParseFail ELSE obj :
                      obj \in {ParseMembers(c, open + 1, <<>>,
                                            [leaves |-> {}, spans |-> {}])}})

\* a PackageDeployConfig; a field that is not set is Undef
EmptyDeploy ==
    [target |-> Undef, colocateWith |-> Undef, url |-> Undef]

LeafValue(leaves, path) ==
    IF \E l \in leaves : l[1] = path
    THEN (CHOOSE l \in leaves : l[1] = path)[2]
    ELSE Undef

\* the Record<string, PackageDeployConfig> found under the keys of prefix
PackagesUnder(leaves, prefix) ==
    LET names == {l[1][Len(prefix) + 1] : l \in {m \in leaves :
                      IsPrefix(prefix, m[1]) /\ Len(m[1]) = Len(prefix) + 2}}
    IN  [n \in names |->
            [target |-> LeafValue(leaves, prefix \o <<n, K_target>>),
             colocateWith |-> LeafValue(leaves, prefix \o <<n, K_colocateWith>>),
             url |-> LeafValue(leaves, prefix \o <<n, K_url>>)]]

\* the KagaribiConfig a parsed file evaluates to
ConfigOf(parsed) ==
    LET envs == {l[1][2] : l \in {m \in parsed.leaves :
                     Len(m[1]) = 5 /\ m[1][1] = K_environments /\ m[1][3] = K_packages}}
    IN  [packages |-> PackagesUnder(parsed.leaves, <<K_packages>>),
         environments |-> [e \in envs |->
             [packages |-> PackagesUnder(parsed.leaves, <<K_environments, e, K_packages>>)]]]

\* loadConfig: ok = FALSE stands for the import that throws
loadConfig(content) ==
    Once({IF parsed.ok THEN [ok |-> TRUE, config |-> ConfigOf(parsed)]
          ELSE [ok |-> FALSE, config |-> [packages |-> <<>>, environments |-> <<>>]] :
             parsed \in {ParseConfig(content)}})

\* ------------------------------------------------------------------------
\* Configuration files
\* ------------------------------------------------------------------------

FileHead ==
    <<"i","m","p","o","r","t"," ","{"," ","d","e","f","i","n","e","C","o",
      "n","f","i","g"," ","}"," ","f","r","o","m"," ","'","k","'",";","\n",
      "e","x","p","o","r","t"," ","d","e","f","a","u","l","t"," ","d","e",
      "f","i","n","e","C","o","n","f","i","g","(","{","\n">>

PkgOpen ==
    <<" "," ","p","a","c","k","a","g","e","s",":"," ","{","\n">>

PkgClose ==
    <<" "," ","}",",","\n">>

E_root ==
    <<" "," "," "," ","r","o","o","t",":"," ","{"," ","t","a","r","g","e",
      "t",":"," ","'","n","o","d","e","'"," ","}",",","\n">>

E_rootMultiline ==
    <<" "," "," "," ","r","o","o","t",":"," ","{","\n"," "," "," "," "," ",
      " ","t","a","r","g","e","t",":"," ","'","n","o","d","e","'",",","\n",
      " "," "," "," ","}",",","\n">>

E_auth ==
    <<" "," "," "," ","a","u","t","h",":"," ","{"," ","c","o","l","o","c",
      "a","t","e","W","i","t","h",":"," ","'","r","o","o","t","'"," ","}",
      ",","\n">>

E_authNoComma ==
    <<" "," "," "," ","a","u","t","h",":"," ","{"," ","c","o","l","o","c",
      "a","t","e","W","i","t","h",":"," ","'","r","o","o","t","'"," ","}",
      "\n">>

E_authDeno ==
    <<" "," "," "," ","a","u","t","h",":"," ","{"," ","t","a","r","g","e",
      "t",":"," ","'","d","e","n","o","'"," ","}",",","\n">>

E_oauth ==
    <<" "," "," "," ","o","a","u","t","h",":"," ","{"," ","t","a","r","g",
      "e","t",":"," ","'","n","o","d","e","'"," ","}",",","\n">>

E_authCommented ==
    <<" "," "," "," ","/","/"," ","a","u","t","h",":"," ","{"," ","t","a",
      "r","g","e","t",":"," ","'","n","o","d","e","'"," ","}",",","\n">>

E_braceComment ==
    <<" "," "," "," ","/","*"," ","}"," ","*","/","\n">>

E_apiQuoted ==
    <<" "," "," "," ","'","m","y","-","a","p","i","'",":"," ","{"," ","u",
      "r","l",":"," ","'","h",":","/","/","m","'"," ","}",",","\n">>

EnvProd ==
    <<" "," ","e","n","v","i","r","o","n","m","e","n","t","s",":"," ","{",
      "\n"," "," "," "," ","p","r","o","d",":"," ","{","\n"," "," "," "," ",
      " "," ","p","a","c","k","a","g","e","s",":"," ","{","\n"," "," "," ",
      " "," "," "," "," ","a","u","t","h",":"," ","{"," ","t","a","r","g",
      "e","t",":"," ","'","d","e","n","o","'"," ","}",",","\n"," "," "," ",
      " "," "," ","}",",","\n"," "," "," "," ","}",",","\n"," "," ","}",",",
      "\n">>

EnvWild ==
    <<" "," ","e","n","v","i","r","o","n","m","e","n","t","s",":"," ","{",
      "\n"," "," "," "," ","p","r","o","d",":"," ","{","\n"," "," "," "," ",
      " "," ","p","a","c","k","a","g","e","s",":"," ","{","\n"," "," "," ",
      " "," "," "," "," ","'","*","'",":"," ","{"," ","c","o","l","o","c",
      "a","t","e","W","i","t","h",":"," ","'","r","o","o","t","'"," ","}",
      ",","\n"," "," "," "," "," "," ","}",",","\n"," "," "," "," ","}",",",
      "\n"," "," ","}",",","\n">>

FileEnd ==
    <<"}",")",";","\n">>

NoTokenOpen ==
    <<" "," ","p","k","g","s",":"," ","{","\n">>

E_unterminated ==
    <<" "," "," "," ","a","u","t","h",":"," ","{"," ","u","r","l",":"," ",
      "'","h",":","/","/","x"," ","}",",","\n">>

\* the file written by `kagaribi init`, after `kagaribi new auth`
FileBasic ==
    FileHead \o PkgOpen \o E_root \o E_auth \o PkgClose \o EnvProd \o FileEnd

\* bare keys of which one ends with the other
FileSuffix ==
    FileHead \o PkgOpen \o E_root \o E_oauth \o E_authDeno \o PkgClose \o FileEnd

\* last entry without a trailing comma
FileNoComma ==
    FileHead \o PkgOpen \o E_root \o E_authNoComma \o PkgClose \o EnvProd \o FileEnd

\* multi-line entry, a commented-out entry and a quoted key
FileComment ==
    FileHead \o PkgOpen \o E_rootMultiline \o E_braceComment \o E_authCommented
    \o E_apiQuoted \o PkgClose \o FileEnd

\* wildcard override as generated by `kagaribi init`
FileWild ==
    FileHead \o PkgOpen \o E_rootMultiline \o E_authDeno \o PkgClose \o EnvWild \o FileEnd

\* environments written before packages
FileEnvFirst ==
    FileHead \o EnvProd \o PkgOpen \o E_root \o E_auth \o PkgClose \o FileEnd

\* no `packages:` token at all
FileNoToken ==
    FileHead \o NoTokenOpen \o E_root \o PkgClose \o FileEnd

\* the packages block is opened and the file ends inside it
FileTruncated ==
    FileHead \o PkgOpen \o E_root \o E_auth

\* the only closing braces after the token are in a comment
FileCloseInComment ==
    PkgOpen \o E_braceComment \o E_braceComment

\* a string that is never closed hides every closing brace
FileUnterminated ==
    FileHead \o PkgOpen \o E_unterminated \o PkgClose \o FileEnd

\* ------------------------------------------------------------------------
\* Package names, environment names and URLs used as inputs
\* ------------------------------------------------------------------------

N_root ==
    <<"r","o","o","t">>

N_auth ==
    <<"a","u","t","h">>

N_oauth ==
    <<"o","a","u","t","h">>

N_api ==
    <<"m","y","-","a","p","i">>

N_ghost ==
    <<"g","h","o","s","t">>

N_prod ==
    <<"p","r","o","d">>

U_a ==
    <<"h",":","/","/","a">>

U_b ==
    <<"h",":","/","/","b">>

\* ------------------------------------------------------------------------
\* Package Resolver (scanner.ts)
\* ------------------------------------------------------------------------

\* Map.prototype.set on a Map kept as the sequence of its entries: a key
\* that is present keeps its place and gets the new value
MapSet(m, name, path) ==
    IF \E i \in 1..Len(m) : m[i].name = name
    THEN [i \in 1..Len(m) |-> IF m[i].name = name
                               THEN [name |-> name, path |-> path] ELSE m[i]]
    ELSE Append(m, [name |-> name, path |-> path])

\* the for loop of scanPackages over the directory entries from k on.
\* An entry is [name, isDirectory, manifest]: manifest is the name declared
\* by kagaribi.package.ts, Undef when the directory has no such file.
RECURSIVE ScanLoop(_, _, _)
ScanLoop(entries, k, packages) ==
    IF k > Len(entries) THEN packages
    ELSE IF ~entries[k].isDirectory THEN ScanLoop(entries, k + 1, packages)
    ELSE IF entries[k].manifest = Undef THEN ScanLoop(entries, k + 1, packages)
    ELSE ScanLoop(entries, k + 1,
                  MapSet(packages, entries[k].manifest, entries[k].name))

\* scanPackages: threw is FALSE on every path, the function has no throw
scanPackages(entries) ==
    [threw |-> FALSE, packages |-> ScanLoop(entries, 1, <<>>)]

\* mutant: the earlier object wins
Spread_FirstWins(a, b) ==
    [target |-> IF a.target # Undef THEN a.target ELSE b.target,
     colocateWith |-> IF a.colocateWith # Undef THEN a.colocateWith ELSE b.colocateWith,
     url |-> IF a.url # Undef THEN a.url ELSE b.url]

\* { ...a, ...b } of two PackageDeployConfig objects
Spread(a, b) ==
    [target |-> IF b.target # Undef THEN b.target ELSE a.target,
     colocateWith |-> IF b.colocateWith # Undef THEN b.colocateWith ELSE a.colocateWith,
     url |-> IF b.url # Undef THEN b.url ELSE a.url]

\* record[key] ?? {}
DeployOrEmpty(record, key) ==
    IF key \in DOMAIN record THEN record[key] ELSE EmptyDeploy

\* the mode expression of resolvePackages
ModeOf(deploy) ==
    IF Truthy(deploy.colocateWith) THEN "local"
    ELSE IF Truthy(deploy.url) THEN "remote" ELSE "local"

\* resolvePackages
resolvePackages(scannedMap, cfg, environment) ==
    LET envOverrides ==
            IF Truthy(environment) /\ environment \in DOMAIN cfg.environments
            THEN cfg.environments[environment].packages
            ELSE <<>>
        resolveOne(pkg) ==
            LET baseConfig == DeployOrEmpty(cfg.packages, pkg.name)
                wildcardOverride == DeployOrEmpty(envOverrides, K_star)
                specificOverride == DeployOrEmpty(envOverrides, pkg.name)
                deploy == Spread(Spread(baseConfig, wildcardOverride), specificOverride)
            IN  [name |-> pkg.name, path |-> pkg.path, deploy |-> deploy,
                 mode |-> ModeOf(deploy)]
    IN  [i \in 1..Len(scannedMap) |-> resolveOne(scannedMap[i])]

\* ------------------------------------------------------------------------
\* Build Planner (planner.ts)
\* ------------------------------------------------------------------------

\* mutant: colocateWith wins over url
isIndependent_ColocateWins(p) ==
    ~Truthy(p.deploy.colocateWith)

isIndependent(p) ==
    ~Truthy(p.deploy.colocateWith) \/ Truthy(p.deploy.url)

SeqNames(pkgs) ==
    {pkgs[i].name : i \in 1..Len(pkgs)}

\* mutant: the target is taken from the host as it is, without a default
createBuildPlan_NoDefault(resolvedPkgs) ==
    LET hosts == SelectSeq(resolvedPkgs, isIndependent)
        colocatedMapGet(hostName) ==
            SelectSeq(resolvedPkgs,
                      LAMBDA pkg : /\ Truthy(pkg.deploy.colocateWith)
                                   /\ ~Truthy(pkg.deploy.url)
                                   /\ pkg.deploy.colocateWith = hostName)
        remotePackages == SelectSeq(resolvedPkgs, LAMBDA p : Truthy(p.deploy.url))
        group(host) ==
            LET colocated == colocatedMapGet(host.name)
                groupNames == {host.name} \cup SeqNames(colocated)
            IN  [host |-> host,
                 colocated |-> colocated,
                 remotes |-> SelectSeq(remotePackages, LAMBDA r : r.name \notin groupNames),
                 target |-> host.deploy.target]
    IN  [threw |-> FALSE, groups |-> [i \in 1..Len(hosts) |-> group(hosts[i])]]

\* mutant: every group lists all packages with a url as remotes
createBuildPlan_AllRemotes(resolvedPkgs) ==
    LET hosts == SelectSeq(resolvedPkgs, isIndependent)
        colocatedMapGet(hostName) ==
            SelectSeq(resolvedPkgs,
                      LAMBDA pkg : /\ Truthy(pkg.deploy.colocateWith)
                                   /\ ~Truthy(pkg.deploy.url)
                                   /\ pkg.deploy.colocateWith = hostName)
        remotePackages == SelectSeq(resolvedPkgs, LAMBDA p : Truthy(p.deploy.url))
        group(host) ==
            [host |-> host,
             colocated |-> colocatedMapGet(host.name),
             remotes |-> remotePackages,
             target |-> IF host.deploy.target = Undef THEN T_node
                        ELSE host.deploy.target]
    IN  [threw |-> FALSE, groups |-> [i \in 1..Len(hosts) |-> group(hosts[i])]]

\* createBuildPlan: threw is FALSE on every path, the function has no throw
createBuildPlan(resolvedPkgs) ==
    LET hosts == SelectSeq(resolvedPkgs, isIndependent)
        colocatedMapGet(hostName) ==
            SelectSeq(resolvedPkgs,
                      LAMBDA pkg : /\ Truthy(pkg.deploy.colocateWith)
                                   /\ ~Truthy(pkg.deploy.url)
                                   /\ pkg.deploy.colocateWith = hostName)
        remotePackages == SelectSeq(resolvedPkgs, LAMBDA p : Truthy(p.deploy.url))
        group(host) ==
            LET colocated == colocatedMapGet(host.name)
                groupNames == {host.name} \cup SeqNames(colocated)
            IN  [host |-> host,
                 colocated |-> colocated,
                 remotes |-> SelectSeq(remotePackages, LAMBDA r : r.name \notin groupNames),
                 target |-> IF host.deploy.target = Undef THEN T_node
                            ELSE host.deploy.target]
    IN  [threw |-> FALSE, groups |-> [i \in 1..Len(hosts) |-> group(hosts[i])]]

\* ------------------------------------------------------------------------
\* State
\* ------------------------------------------------------------------------

VARIABLES
    pc,             \* position of the running operation
    file,           \* text of kagaribi.config.ts
    dir,            \* entries of the packages/ directory
    dist,           \* dist/: whether it exists, and the bundles built in it
    opts,           \* options of the running call
    scanned,        \* result of scanPackages
    config,         \* the loaded KagaribiConfig
    resolved,       \* ResolvedPackage[] given to createBuildPlan
    plan,           \* result of createBuildPlan
    groupsToDeploy, \* groups selected by filterGroupsForDeploy
    idx,            \* index of the group the deploy loop is at
    pendingUrl,     \* url returned by adapter.deploy, not yet persisted
    results,        \* DeployResult[] of the running deployProject
    calls,          \* adapter.deploy invocations of the running deployProject
    fileWrites,     \* writeFile calls on kagaribi.config.ts in the running call
    run,            \* number of the deployProject call
    history,        \* what the earlier deployProject calls did
    mut,            \* the last Config Mutator call
    builds,         \* the group builds of the running buildProject
    proc,           \* the running exec call and its child process
    runtime,        \* process.env and what mountPackages made of the packages
    helper,         \* one helper made by createDbHelper, and the calls on it
    block           \* what findPackagesBlock returned for the text in file

vars ==
    <<pc, file, dir, dist, opts, scanned, config, resolved, plan,
      groupsToDeploy, idx, pendingUrl, results, calls, fileWrites, run,
      history, mut, builds, proc, runtime,
      helper, block>>

NoOpts ==
    [environment |-> Undef, packageName |-> Undef, target |-> Undef]

NoScan ==
    [threw |-> FALSE, packages |-> <<>>]

NoConfig ==
    [packages |-> <<>>, environments |-> <<>>]

NoPlan ==
    [threw |-> FALSE, groups |-> <<>>]

NoDist ==
    [exists |-> FALSE, bundles |-> {}]

NoMut ==
    [op |-> "none", name |-> <<>>, deploy |-> EmptyDeploy, before |-> <<>>,
     threw |-> FALSE, err |-> "", writes |-> <<>>]

\* no buildProject running: no promise, no group build, nothing written
NoBuilds ==
    [promise |-> "none", at |-> <<>>, fs |-> {}]

\* what exec throws: the Error it makes (wrapped) or the error it caught
NoError ==
    [wrapped |-> FALSE, message |-> <<>>]

\* no environment variable set, nothing mounted
NoRuntime ==
    [env |-> {}, routes |-> <<>>, threw |-> FALSE]

\* the undefined of `let _db`
NoDb ==
    [id |-> 0, truthy |-> FALSE]

\* a helper as createDbHelper returns it: _db undefined, no call made yet
NoHelper ==
    [db |-> NoDb, invoked |-> 0, log |-> <<>>]

\* findPackagesBlock not called
NoBlock ==
    [ok |-> FALSE, err |-> "", start |-> -1, end |-> -1]

\* no exec call running
NoProc ==
    [command |-> <<>>, commandArgs |-> <<>>,
     child |-> [code |-> "none", stdout |-> <<>>, stderr |-> <<>>],
     stdout |-> <<>>, stderr |-> <<>>, error |-> NoError]

\* ------------------------------------------------------------------------
\* Bounds and inputs
\* ------------------------------------------------------------------------

\* number of packages in a resolved list or of entries in packages/
MaxPkgs ==
    2

PkgNames ==
    <<N_root, N_auth, N_oauth, N_api>>

UsedNames(n) ==
    {PkgNames[i] : i \in 1..(IF n < Len(PkgNames) THEN n ELSE Len(PkgNames))}

\* deploy configs of a package in a list of n packages
DeployInputs(n) ==
    [target : {Undef, T_deno},
     colocateWith : {Undef, N_ghost} \cup UsedNames(n),
     url : {Undef, U_a}]

\* resolved lists: n distinct names, every combination of deploy configs
ResolvedInputs ==
    UNION {{[i \in 1..n |-> [name |-> PkgNames[i], path |-> PkgNames[i],
                               deploy |-> d[i], mode |-> ModeOf(d[i])]] :
               d \in [1..n -> DeployInputs(n)]} :
           n \in 1..(IF MaxPkgs < Len(PkgNames) THEN MaxPkgs ELSE Len(PkgNames))}

\* ------------------------------------------------------------------------
\* createBuildPlan on a given resolved list
\* ------------------------------------------------------------------------

InitPlan ==
    /\ pc = "plan"
    /\ resolved \in ResolvedInputs
    /\ plan = NoPlan
    /\ file = <<>> /\ dir = <<>> /\ dist = NoDist /\ opts = NoOpts
    /\ scanned = NoScan /\ config = NoConfig
    /\ groupsToDeploy = <<>> /\ idx = 0 /\ pendingUrl = Undef
    /\ results = <<>> /\ calls = <<>> /\ fileWrites = <<>> /\ run = 0
    /\ history = <<>> /\ mut = NoMut /\ builds = NoBuilds
    /\ proc = NoProc /\ runtime = NoRuntime
    /\ helper = NoHelper /\ block = NoBlock

CreateBuildPlan ==
    /\ pc = "plan"
    /\ plan' = createBuildPlan(resolved)
    /\ pc' = "planned"
    /\ UNCHANGED <<file, dir, block, helper, runtime, proc, builds, dist, opts, scanned, config, resolved,
                   groupsToDeploy, idx, pendingUrl, results, calls,
                   fileWrites, run, history, mut>>

NextPlan ==
    CreateBuildPlan

SpecPlan ==
    InitPlan /\ [][NextPlan]_vars

\* ------------------------------------------------------------------------
\* Properties of createBuildPlan
\* ------------------------------------------------------------------------

ResolvedSet ==
    {resolved[i] : i \in 1..Len(resolved)}

GroupIdx ==
    1..Len(plan.groups)

\* places at which a package name occurs in the plan: <<g, 0>> as host of
\* group g, <<g, j>> as the j-th colocated member of group g
PlacesOf(name) ==
    {<<g, 0>> : g \in {h \in GroupIdx : plan.groups[h].host.name = name}}
    \cup UNION {{<<g, j>> : j \in {k \in 1..Len(plan.groups[g].colocated) :
                                     plan.groups[g].colocated[k].name = name}} :
                g \in GroupIdx}

RECURSIVE SumGroupSizes(_)
SumGroupSizes(groups) ==
    IF groups = <<>> THEN 0
    ELSE 1 + Len(groups[1].colocated) + SumGroupSizes(Tail(groups))

\* C1: every resolved package appears in exactly one group, as the host or
\* as one colocated member, and the group sizes add up to the number of
\* resolved packages
C1_GroupingInvariant ==
    pc = "planned" =>
        /\ \A p \in ResolvedSet : Cardinality(PlacesOf(p.name)) = 1
        /\ SumGroupSizes(plan.groups) = Len(resolved)

\* C6: a package with both colocateWith and a non-empty url is the host of
\* its own group and is in no group's colocated list
C6_UrlPrecedence ==
    pc = "planned" =>
        \A p \in ResolvedSet :
            Truthy(p.deploy.colocateWith) /\ Truthy(p.deploy.url) =>
                /\ \E g \in GroupIdx : plan.groups[g].host = p
                /\ \A g \in GroupIdx : p.name \notin SeqNames(plan.groups[g].colocated)

\* C6 witness: a package that names root as its host and has a url is
\* planned next to the group of root
C6_Witness ==
    /\ pc = "planned"
    /\ \E p \in ResolvedSet :
          /\ p.deploy.colocateWith = N_root /\ Truthy(p.deploy.url)
          /\ \E g \in GroupIdx : plan.groups[g].host = p
          /\ \E g \in GroupIdx : plan.groups[g].host.name = N_root

\* the elements of a sequence
SeqElems(q) ==
    {q[i] : i \in 1..Len(q)}

\* C12: the remotes of every group are exactly the resolved packages that
\* have a non-empty url and are neither its host nor one of its colocated
\* members, each listed once
C12_RemotesOfGroup ==
    pc = "planned" =>
        \A g \in GroupIdx :
            LET grp == plan.groups[g]
            IN  /\ SeqElems(grp.remotes) =
                       {p \in ResolvedSet :
                           /\ Truthy(p.deploy.url)
                           /\ p # grp.host
                           /\ p \notin SeqElems(grp.colocated)}
                /\ Cardinality(SeqElems(grp.remotes)) = Len(grp.remotes)

\* C12 witness: a host without a url has a remote, and that remote's own
\* group does not list itself
C12_Witness ==
    /\ pc = "planned"
    /\ \E g, h \in GroupIdx :
          /\ ~Truthy(plan.groups[g].host.deploy.url)
          /\ plan.groups[g].remotes = <<plan.groups[h].host>>
          /\ Truthy(plan.groups[h].host.deploy.url)
          /\ plan.groups[h].remotes = <<>>

\* C22: every group's target is its host's resolved target, and 'node' when
\* the host's resolved deploy config has no target
C22_DefaultTargetIsNode ==
    pc = "planned" =>
        \A g \in GroupIdx :
            plan.groups[g].target =
                IF plan.groups[g].host.deploy.target = Undef
                THEN T_node
                ELSE plan.groups[g].host.deploy.target

\* a plan with a host without target beside a host with target 'deno'
C22_Witness ==
    /\ pc = "planned"
    /\ \E g, h \in GroupIdx :
          /\ plan.groups[g].host.deploy.target = Undef
          /\ plan.groups[g].target = T_node
          /\ plan.groups[h].host.deploy.target = T_deno
          /\ plan.groups[h].target = T_deno

\* C8: a colocateWith that names no host of the resolved set is a fatal
\* configuration error of createBuildPlan
C8_DanglingIsFatal ==
    pc = "planned" =>
        ((\E p \in ResolvedSet :
             /\ Truthy(p.deploy.colocateWith)
             /\ ~\E q \in ResolvedSet :
                   q.name = p.deploy.colocateWith /\ isIndependent(q))
         => plan.threw)

\* ------------------------------------------------------------------------
\* scanPackages, resolvePackages and createBuildPlan in sequence
\* (steps 1 to 3 of buildProject) on a given directory and configuration
\* ------------------------------------------------------------------------

\* number of entries of the packages/ directory
MaxEntries ==
    3

\* entry i is named PkgNames[i]; it is a plain file, a directory without a
\* manifest, a directory whose manifest declares the directory's name, or a
\* directory whose manifest declares the name root
EntryInputs(i) ==
    {[name |-> PkgNames[i], isDirectory |-> FALSE, manifest |-> Undef],
     [name |-> PkgNames[i], isDirectory |-> TRUE, manifest |-> Undef],
     [name |-> PkgNames[i], isDirectory |-> TRUE, manifest |-> PkgNames[i]],
     [name |-> PkgNames[i], isDirectory |-> TRUE, manifest |-> N_root]}

DirInputs ==
    UNION {{d \in [1..n -> UNION {EntryInputs(i) : i \in 1..n}] :
               \A i \in 1..n : d[i] \in EntryInputs(i)} :
           n \in 1..(IF MaxEntries < Len(PkgNames) THEN MaxEntries ELSE Len(PkgNames))}

Deploy(t, c, u) ==
    [target |-> t, colocateWith |-> c, url |-> u]

\* configurations: packages.root, packages.auth, and the wildcard and the
\* auth override of environment prod (EmptyDeploy: the key is absent)
ConfigInputs ==
    {[packages |-> (N_root :> r) @@ (N_auth :> a),
      environments |-> (N_prod :> [packages |-> (K_star :> w) @@ (N_auth :> o)])] :
        r \in {EmptyDeploy, Deploy(T_deno, Undef, Undef)},
        a \in {EmptyDeploy, Deploy(T_deno, Undef, Undef), Deploy(Undef, N_root, Undef),
               Deploy(Undef, N_root, U_a), Deploy(Undef, Undef, U_a)},
        w \in {EmptyDeploy, Deploy(Undef, N_root, Undef), Deploy(Undef, Undef, U_b)},
        o \in {EmptyDeploy, Deploy(T_node, Undef, Undef), Deploy(Undef, Undef, U_b),
               Deploy(Undef, Undef, U_a)}}

InitScan ==
    /\ pc = "scan"
    /\ dir \in DirInputs
    /\ config \in ConfigInputs
    /\ opts \in [environment : {Undef, N_prod}, packageName : {Undef}, target : {Undef}]
    /\ scanned = NoScan /\ resolved = <<>> /\ plan = NoPlan
    /\ file = <<>> /\ dist = NoDist
    /\ groupsToDeploy = <<>> /\ idx = 0 /\ pendingUrl = Undef
    /\ results = <<>> /\ calls = <<>> /\ fileWrites = <<>> /\ run = 0
    /\ history = <<>> /\ mut = NoMut /\ builds = NoBuilds
    /\ proc = NoProc /\ runtime = NoRuntime
    /\ helper = NoHelper /\ block = NoBlock

ScanPackages ==
    /\ pc = "scan"
    /\ scanned' = scanPackages(dir)
    /\ pc' = "resolve"
    /\ UNCHANGED <<file, dir, block, helper, runtime, proc, builds, dist, opts, config, resolved, plan,
                   groupsToDeploy, idx, pendingUrl, results, calls,
                   fileWrites, run, history, mut>>

ResolvePackages ==
    /\ pc = "resolve"
    /\ resolved' = resolvePackages(scanned.packages, config, opts.environment)
    /\ pc' = "plan"
    /\ UNCHANGED <<file, dir, block, helper, runtime, proc, builds, dist, opts, scanned, config, plan,
                   groupsToDeploy, idx, pendingUrl, results, calls,
                   fileWrites, run, history, mut>>

NextScan ==
    \/ ScanPackages
    \/ ResolvePackages
    \/ CreateBuildPlan

SpecScan ==
    InitScan /\ [][NextScan]_vars

\* ------------------------------------------------------------------------
\* Properties of scanPackages and resolvePackages
\* ------------------------------------------------------------------------

\* C7: every resolved package whose merged deploy config has a non-empty
\* url has mode remote, also when colocateWith is set
C7_UrlMeansRemote ==
    pc \in {"plan", "planned"} =>
        \A i \in 1..Len(resolved) :
            Truthy(resolved[i].deploy.url) => resolved[i].mode = "remote"

\* the overrides of the environment the call names, or none
OverridesOf(cfg, environment) ==
    IF environment # Undef /\ environment \in DOMAIN cfg.environments
    THEN cfg.environments[environment].packages
    ELSE <<>>

\* the value a field takes by precedence: the per-package override, else the
\* '*' override, else config.packages[name]
ByPrecedence(overrides, base, name, field) ==
    IF name \in DOMAIN overrides /\ overrides[name][field] # Undef
    THEN overrides[name][field]
    ELSE IF K_star \in DOMAIN overrides /\ overrides[K_star][field] # Undef
    THEN overrides[K_star][field]
    ELSE IF name \in DOMAIN base THEN base[name][field]
    ELSE Undef

\* C11: each field of a resolved deploy config comes from the environment's
\* per-package override, else from its '*' override, else from
\* config.packages[name]; with no environment only config.packages[name]
C11_MergeOrder ==
    pc \in {"plan", "planned"} =>
        \A i \in 1..Len(resolved) :
            /\ \A field \in {"target", "colocateWith", "url"} :
                   resolved[i].deploy[field] =
                       ByPrecedence(OverridesOf(config, opts.environment),
                                    config.packages, resolved[i].name, field)
            /\ opts.environment = Undef =>
                   resolved[i].deploy = DeployOrEmpty(config.packages, resolved[i].name)

\* C11 witness: the '*' override and the per-package override of auth give
\* different urls, config.packages.auth gives colocateWith, and auth resolves
\* to the per-package url with the base colocateWith
C11_Witness ==
    /\ pc = "plan" /\ opts.environment = N_prod
    /\ config.packages[N_auth] = Deploy(Undef, N_root, Undef)
    /\ config.environments[N_prod].packages[K_star].url = U_b
    /\ config.environments[N_prod].packages[N_auth].url = U_a
    /\ \E i \in 1..Len(resolved) :
           /\ resolved[i].name = N_auth
           /\ resolved[i].deploy = Deploy(Undef, N_root, U_a)

\* two directories of packages/ whose manifests declare the same name
DuplicateManifestName ==
    \E i, j \in 1..Len(dir) :
        /\ i < j
        /\ dir[i].isDirectory /\ dir[j].isDirectory
        /\ dir[i].manifest # Undef
        /\ dir[i].manifest = dir[j].manifest

\* C26: with the wildcard override of the environment setting colocateWith
\* to root, and no package given a url, the plan of a scanned package set
\* that holds root has a group hosted by root with every scanned package in
\* it, and is not empty
C26_WildcardKeepsHost ==
    (/\ pc = "planned" /\ opts.environment = N_prod
     /\ config.environments[N_prod].packages[K_star].colocateWith = N_root
     /\ N_root \in SeqNames(resolved)
     /\ \A i \in 1..Len(resolved) : ~Truthy(resolved[i].deploy.url)) =>
        /\ plan.groups # <<>>
        /\ \E g \in 1..Len(plan.groups) :
              /\ plan.groups[g].host.name = N_root
              /\ {N_root} \cup SeqNames(plan.groups[g].colocated)
                    = SeqNames(scanned.packages)

\* C9: scanning a directory in which two manifests declare the same name
\* fails instead of returning a package set with only one of them
C9_DuplicateNameIsFatal ==
    pc \in {"resolve", "plan", "planned"} /\ DuplicateManifestName
        => scanned.threw

\* ------------------------------------------------------------------------
\* Config Mutator calls on a given kagaribi.config.ts
\* ------------------------------------------------------------------------

\* number of mutator calls made one after the other on the same file
MaxOps ==
    2

MutFiles ==
    {FileBasic, FileSuffix, FileNoComma, FileComment, FileWild, FileEnvFirst,
     FileNoToken, FileTruncated, FileCloseInComment, FileUnterminated}

MutNames ==
    {N_root, N_auth, N_oauth, N_api}

\* the file after the writeFile calls of one operation
AfterWrites(content, writes) ==
    IF writes = <<>> THEN content ELSE writes[Len(writes)]

InitMut ==
    /\ pc = "mutate"
    /\ file \in MutFiles
    /\ mut = NoMut /\ builds = NoBuilds
    /\ proc = NoProc /\ runtime = NoRuntime
    /\ helper = NoHelper /\ block = NoBlock
    /\ run = 0
    /\ dir = <<>> /\ dist = NoDist /\ opts = NoOpts
    /\ scanned = NoScan /\ config = NoConfig /\ resolved = <<>> /\ plan = NoPlan
    /\ groupsToDeploy = <<>> /\ idx = 0 /\ pendingUrl = Undef
    /\ results = <<>> /\ calls = <<>> /\ fileWrites = <<>>
    /\ history = <<>>

MutCall(op, name, cfg, r) ==
    /\ mut' = [op |-> op, name |-> name, deploy |-> cfg, before |-> file,
               threw |-> r.threw, err |-> r.err, writes |-> r.writes]
    /\ file' = AfterWrites(file, r.writes)
    /\ run' = run + 1
    /\ UNCHANGED <<pc, dir, block, helper, runtime, proc, builds, dist, opts, scanned, config, resolved, plan,
                   groupsToDeploy, idx, pendingUrl, results, calls,
                   fileWrites, history>>

AddPackage ==
    /\ pc = "mutate" /\ run < MaxOps
    /\ \E name \in MutNames :
       \E cfg \in {Deploy(Undef, N_root, Undef), Deploy(T_deno, Undef, Undef)} :
       \E r \in {updateConfigAddPackage(file, name, cfg)} :
           MutCall("add", name, cfg, r)

SetDeployResult ==
    /\ pc = "mutate" /\ run < MaxOps
    /\ \E name \in MutNames, d \in {<<T_deno, U_a>>, <<T_node, U_b>>} :
       \E r \in {updateConfigSetDeployResult(file, name, d[1], d[2])} :
           MutCall("set", name, Deploy(d[1], Undef, d[2]), r)

NextMut ==
    \/ AddPackage
    \/ SetDeployResult

SpecMut ==
    InitMut /\ [][NextMut]_vars

\* ------------------------------------------------------------------------
\* Properties of the Config Mutator
\* ------------------------------------------------------------------------

\* the text range of the entry of name directly under the top-level
\* packages key of a parsed file, or the empty set
OwnEntrySpans(parsed, name) ==
    {sp \in parsed.spans : sp.path = <<K_packages, name>>}

\* a and b differ by an insertion only: a prefix and the rest of a are kept
InsertionOnly(a, b) ==
    /\ Len(b) >= Len(a)
    /\ \E k \in 0..Len(a) :
          /\ Slice(a, 0, k) = Slice(b, 0, k)
          /\ Slice(a, k, Len(a)) = Slice(b, Len(b) - (Len(a) - k), Len(b))

\* b is a with the range from..to replaced by some text
ReplacedWithin(a, b, from, to) ==
    /\ Len(b) >= from + (Len(a) - to)
    /\ Slice(a, 0, from) = Slice(b, 0, from)
    /\ Slice(a, to, Len(a)) = Slice(b, Len(b) - (Len(a) - to), Len(b))

\* C5: a successful updateConfigAddPackage or updateConfigSetDeployResult
\* leaves every character outside the one inserted or replaced entry of the
\* package unchanged
C5_RestOfFileUnchanged ==
    (mut.op # "none" /\ ~mut.threw /\ ParseConfig(mut.before).ok) =>
        LET own == OwnEntrySpans(ParseConfig(mut.before), mut.name)
        IN  IF own = {}
            THEN InsertionOnly(mut.before, file)
            ELSE \E sp \in own : ReplacedWithin(mut.before, file, sp.from, sp.to)

\* the text `<key>: { <fields> }` the mutator writes for a package
EntryText(name, cfg) ==
    formatObjectKey(name) \o <<":", " ">> \o configToString(cfg)

\* C13: updateConfigSetDeployResult for a package with an entry in the
\* packages block puts `<key>: { target: '<target>', url: '<url>' }` where
\* that entry began, keeps the text before it (the indentation included),
\* makes that the package's value, and leaves the environments section as
\* it was
C13_SetReplacesOwnEntry ==
    (/\ mut.op = "set" /\ ~mut.threw
     /\ ParseConfig(mut.before).ok
     /\ OwnEntrySpans(ParseConfig(mut.before), mut.name) # {}) =>
        \E sp \in OwnEntrySpans(ParseConfig(mut.before), mut.name) :
            /\ Slice(file, 0, sp.from) = Slice(mut.before, 0, sp.from)
            /\ StartsWithAt(file, EntryText(mut.name, mut.deploy), sp.from)
            /\ loadConfig(file).ok
            /\ DeployOrEmpty(loadConfig(file).config.packages, mut.name) = mut.deploy
            /\ loadConfig(file).config.environments
                   = loadConfig(mut.before).config.environments

\* the texts of the entries of the packages block that are not name's
OtherEntries(content, name) ==
    {[key |-> sp.path[2], text |-> Slice(content, sp.from, sp.to)] :
        sp \in {t \in ParseConfig(content).spans :
                   /\ Len(t.path) = 2 /\ t.path[1] = K_packages
                   /\ t.path[2] # name}}

\* C27: a successful updateConfigSetDeployResult for a package leaves every
\* other entry of the packages block as it was, an entry whose key ends
\* with the package's name included, whether or not the package has an
\* entry of its own
C27_OnlyOwnEntryChanges ==
    (mut.op = "set" /\ ~mut.threw /\ ParseConfig(mut.before).ok) =>
        OtherEntries(mut.before, mut.name) \subseteq OtherEntries(file, mut.name)

\* C14: updateConfigAddPackage throws 'already exists' exactly when the
\* packages block of the file has a key for the package name, bare or
\* quoted; a same-named key elsewhere does not count
C14_AlreadyExistsIffOwnKey ==
    (mut.op = "add" /\ ParseConfig(mut.before).ok) =>
        ((mut.threw /\ mut.err = "already exists")
            <=> OwnEntrySpans(ParseConfig(mut.before), mut.name) # {})

\* index of the first character of the line that holds position i
LineStart(content, i) ==
    LET nls == {n \in 0..(i - 1) : At(content, n) = "\n"}
    IN  IF nls = {} THEN 0 ELSE 1 + CHOOSE n \in nls : \A m \in nls : m <= n

\* index of the brace that closes the object a property span ends with
CloseOf(content, sp) ==
    IF At(content, sp.to - 1) = "," THEN sp.to - 2 ELSE sp.to - 1

\* the indentations of the entries of the packages block
SiblingIndents(content, parsed) ==
    {Slice(content, LineStart(content, sp.from), sp.from) :
        sp \in {t \in parsed.spans : Len(t.path) = 2 /\ t.path[1] = K_packages}}

\* after is before with the one line `<indent><key>: { <fields> },` put in
\* front of the line of the packages block's closing brace
OneLineAdded(before, after, name, cfg) ==
    \E parsed \in {ParseConfig(before)} :
    \E blk \in {sp \in parsed.spans : sp.path = <<K_packages>>} :
    \E at \in {LineStart(before, CloseOf(before, blk))} :
    \E ind \in IF SiblingIndents(before, parsed) = {}
                THEN {DefaultIndent}
                ELSE SiblingIndents(before, parsed) :
        after = Slice(before, 0, at)
                \o ind \o EntryText(name, cfg) \o <<",", "\n">>
                \o Slice(before, at, Len(before))

\* C15: updateConfigAddPackage for a name without an entry inserts exactly
\* one line `<indent><key>: { <fields> },` immediately before the packages
\* block's closing brace, indented like the block's entries, the key bare
\* when it is a valid identifier and quoted otherwise
C15_AddInsertsOneLine ==
    (/\ mut.op = "add" /\ ~mut.threw
     /\ ParseConfig(mut.before).ok
     /\ OwnEntrySpans(ParseConfig(mut.before), mut.name) = {}) =>
        OneLineAdded(mut.before, file, mut.name, mut.deploy)

\* files without a `packages:` token, or whose brace after the token is
\* never closed
MalformedFiles ==
    {FileNoToken, FileTruncated, FileCloseInComment, FileUnterminated}

\* C10: on a file without the token or without the balancing brace both
\* operations throw and leave the file as it was; an operation writes the
\* file at most once, and never when it throws
C10_ThrowsWithoutWriting ==
    mut.op # "none" =>
        /\ mut.before \in MalformedFiles =>
              mut.threw /\ mut.writes = <<>> /\ file = mut.before
        /\ Len(mut.writes) <= 1
        /\ mut.threw => mut.writes = <<>> /\ file = mut.before
        /\ mut.writes # <<>> => file = mut.writes[1]

\* C10 witness: updateConfigSetDeployResult has thrown on the file whose
\* packages brace is never closed, and the file is as it was
C10_Witness ==
    /\ mut.op = "set" /\ mut.before = FileTruncated
    /\ mut.threw /\ mut.err = "no closing brace" /\ file = FileTruncated

\* ------------------------------------------------------------------------
\* Deploy Orchestrator (deploy.ts) and the build it starts (exec.ts)
\* ------------------------------------------------------------------------

\* adjustResolvedForTarget
adjustResolvedForTarget(resolvedPkgs, packageName, target) ==
    IF Truthy(packageName)
    THEN [i \in 1..Len(resolvedPkgs) |->
             IF resolvedPkgs[i].name = packageName
             THEN [resolvedPkgs[i] EXCEPT !.deploy.target = target, !.mode = "remote"]
             ELSE resolvedPkgs[i]]
    ELSE [i \in 1..Len(resolvedPkgs) |->
             IF Truthy(resolvedPkgs[i].deploy.url)
             THEN resolvedPkgs[i]
             ELSE [resolvedPkgs[i] EXCEPT !.deploy.target = target]]

\* mutant: a package name selects only the group it hosts
filterGroupsForDeploy_HostOnly(groups, packageName, target) ==
    IF Truthy(packageName)
    THEN SelectSeq(groups, LAMBDA g : g.host.name = packageName)
    ELSE IF Truthy(target)
    THEN SelectSeq(groups, LAMBDA g : ~Truthy(g.host.deploy.url))
    ELSE groups

\* mutant: the bulk path keeps the groups whose host has a url
filterGroupsForDeploy_NoUrlFilter(groups, packageName, target) ==
    IF Truthy(packageName)
    THEN SelectSeq(groups, LAMBDA g : \/ g.host.name = packageName
                                      \/ packageName \in SeqNames(g.colocated))
    ELSE groups

\* filterGroupsForDeploy
filterGroupsForDeploy(groups, packageName, target) ==
    IF Truthy(packageName)
    THEN SelectSeq(groups, LAMBDA g : \/ g.host.name = packageName
                                      \/ packageName \in SeqNames(g.colocated))
    ELSE IF Truthy(target)
    THEN SelectSeq(groups, LAMBDA g : ~Truthy(g.host.deploy.url))
    ELSE groups

\* the targets that have an adapter
AdapterTargets ==
    {T_node, T_deno}

\* getAdapter: ok = FALSE stands for the thrown Error
getAdapter(target) ==
    [ok |-> target \in AdapterTargets, target |-> target]

\* buildProject up to the bundling: one bundle dist/<host name> per group of
\* the plan made from the resolved packages as the configuration gives them
buildProject(content, entries, environment) ==
    LET Groups(cfg) ==
            createBuildPlan(resolvePackages(scanPackages(entries).packages,
                                            cfg, environment)).groups
        Built(groups) ==
            [threw |-> FALSE,
             dist |-> [exists |-> groups # <<>>,
                       bundles |-> {[host |-> groups[i].host.name,
                                     target |-> groups[i].target] :
                                        i \in 1..Len(groups)}]]
    IN  Once({IF ~loaded.ok THEN [threw |-> TRUE, dist |-> NoDist]
              ELSE Once({Built(groups) : groups \in {Groups(loaded.config)}}) :
                 loaded \in {loadConfig(content)}})

\* ------------------------------------------------------------------------
\* deployProject, called up to MaxRuns times on one project
\* ------------------------------------------------------------------------

\* number of deployProject calls
MaxRuns ==
    2

\* a packages/ directory with one package per name
DirOf(names) ==
    [i \in 1..Len(names) |->
        [name |-> names[i], isDirectory |-> TRUE, manifest |-> names[i]]]

\* projects: a configuration file and the packages/ directory beside it
Projects ==
    {[file |-> FileBasic, dir |-> DirOf(<<N_root, N_auth>>)],
     [file |-> FileSuffix, dir |-> DirOf(<<N_root, N_oauth, N_auth>>)],
     [file |-> FileWild, dir |-> DirOf(<<N_root, N_auth>>)],
     [file |-> FileEnvFirst, dir |-> DirOf(<<N_root, N_auth>>)],
     [file |-> FileComment, dir |-> DirOf(<<N_root, N_auth, N_api>>)],
     [file |-> FileTruncated, dir |-> DirOf(<<N_root, N_auth>>)]}

\* options of a call: --env, the package argument, the target flag
OptsInputs ==
    [environment : {Undef, N_prod},
     packageName : {Undef, N_root, N_auth},
     target : {Undef, T_deno}]

\* urls an adapter's deploy returns
AdapterUrls ==
    {U_a, U_b}

InitDeploy ==
    /\ pc = "idle"
    /\ \E p \in Projects :
          /\ file = p.file /\ dir = p.dir
          /\ dist \in {NoDist, buildProject(p.file, p.dir, Undef).dist}
    /\ opts = NoOpts
    /\ scanned = NoScan /\ config = NoConfig /\ resolved = <<>> /\ plan = NoPlan
    /\ groupsToDeploy = <<>> /\ idx = 0 /\ pendingUrl = Undef
    /\ results = <<>> /\ calls = <<>> /\ fileWrites = <<>> /\ run = 0
    /\ history = <<>> /\ mut = NoMut /\ builds = NoBuilds
    /\ proc = NoProc /\ runtime = NoRuntime
    /\ helper = NoHelper /\ block = NoBlock

\* what a finished call leaves in history
Summary ==
    [opts |-> opts, outcome |-> pc,
     hosts |-> [i \in 1..Len(groupsToDeploy) |-> groupsToDeploy[i].host.name],
     results |-> results]

\* entry of deployProject: the locals of a new call
Enter(o) ==
    /\ opts' = o
    /\ run' = run + 1
    /\ pc' = "load"
    /\ scanned' = NoScan /\ config' = NoConfig /\ resolved' = <<>> /\ plan' = NoPlan
    /\ groupsToDeploy' = <<>> /\ idx' = 0 /\ pendingUrl' = Undef
    /\ results' = <<>> /\ calls' = <<>> /\ fileWrites' = <<>>
    /\ UNCHANGED <<file, dir, block, helper, runtime, proc, builds, dist, mut>>

\* the first call, with any options
StartDeploy ==
    /\ pc = "idle"
    /\ history' = history
    /\ \E o \in OptsInputs : Enter(o)

\* the same command run again after the earlier call has returned
Redeploy ==
    /\ pc = "returned" /\ run < MaxRuns
    /\ history' = Append(history, Summary)
    /\ Enter(opts)

\* deployProject lines 44-48: loadConfig, scanPackages, resolvePackages
DeployLoad ==
    /\ pc = "load"
    /\ \E loaded \in {loadConfig(file)}, scan \in {scanPackages(dir)} :
           IF ~loaded.ok
           THEN /\ pc' = "threw"
                /\ UNCHANGED <<config, scanned, resolved>>
           ELSE /\ config' = loaded.config
                /\ scanned' = scan
                /\ resolved' = resolvePackages(scan.packages, loaded.config,
                                               opts.environment)
                /\ pc' = "select"
    /\ UNCHANGED <<file, dir, block, helper, runtime, proc, builds, dist, opts, plan, groupsToDeploy, idx, pendingUrl,
                   results, calls, fileWrites, run, history, mut>>

\* deployProject lines 51-64: adjust for the target, plan, select the groups
DeploySelect ==
    /\ pc = "select"
    /\ \E adjustedResolved \in
              {IF Truthy(opts.target)
               THEN adjustResolvedForTarget(resolved, opts.packageName, opts.target)
               ELSE resolved} :
       \E p \in {createBuildPlan(adjustedResolved)} :
       \E selected \in {filterGroupsForDeploy(p.groups, opts.packageName,
                                              opts.target)} :
           /\ resolved' = adjustedResolved
           /\ plan' = p
           /\ groupsToDeploy' = selected
           /\ pc' = IF Len(selected) = 0 THEN "returned" ELSE "build"
    /\ UNCHANGED <<file, dir, block, helper, runtime, proc, builds, dist, opts, scanned, config, idx, pendingUrl,
                   results, calls, fileWrites, run, history, mut>>

\* deployProject lines 67-80: build when dist/ is absent. The bundler is
\* outside the repository: it writes the bundles, or fails after buildGroup
\* has made the directories
DeployBuild ==
    /\ pc = "build"
    /\ IF dist.exists
       THEN /\ pc' = "deploy" /\ idx' = 1
            /\ UNCHANGED dist
       ELSE \E built \in {buildProject(file, dir, opts.environment)} :
                \/ /\ ~built.threw
                   /\ dist' = built.dist
                   /\ pc' = "deploy" /\ idx' = 1
                \/ /\ dist' = [exists |-> ~built.threw /\ built.dist.exists,
                               bundles |-> {}]
                   /\ pc' = "threw"
                   /\ UNCHANGED idx
    /\ UNCHANGED <<file, dir, block, helper, runtime, proc, builds, opts, scanned, config, resolved, plan,
                   groupsToDeploy, pendingUrl, results, calls, fileWrites, run,
                   history, mut>>

\* mutant: a failed adapter.deploy is caught and the loop goes on
DeployGroup_SkipFailed ==
    /\ pc = "deploy" /\ idx <= Len(groupsToDeploy)
    /\ \E group \in {groupsToDeploy[idx]} :
          /\ calls' = Append(calls, [host |-> group.host.name,
                                     target |-> group.target,
                                     colocated |-> SeqNames(group.colocated)])
          /\ \/ \E url \in AdapterUrls :
                    /\ pendingUrl' = url
                    /\ pc' = "persist"
                    /\ idx' = idx
             \/ /\ pc' = "deploy"
                /\ idx' = idx + 1
                /\ UNCHANGED pendingUrl
    /\ UNCHANGED <<file, dir, block, helper, runtime, proc, builds, dist, opts,
                   scanned, config, resolved, plan, groupsToDeploy, results,
                   fileWrites, run, history, mut>>

\* mutant: adapter.deploy is called and the loop goes on to the next group
\* without awaiting it or the configuration update
DeployGroup_NoAwait ==
    /\ pc = "deploy" /\ idx <= Len(groupsToDeploy)
    /\ \E group \in {groupsToDeploy[idx]} :
          calls' = Append(calls, [host |-> group.host.name,
                                  target |-> group.target,
                                  colocated |-> SeqNames(group.colocated)])
    /\ idx' = idx + 1
    /\ UNCHANGED <<pc, file, dir, block, helper, runtime, proc, builds, dist, opts, scanned, config, resolved,
                   plan, groupsToDeploy, pendingUrl, results, fileWrites, run,
                   history, mut>>

\* deployProject lines 82-89: getAdapter and adapter.deploy for the group
\* at idx. The platform behind the adapter returns a url or fails.
DeployGroup ==
    /\ pc = "deploy" /\ idx <= Len(groupsToDeploy)
    /\ LET group == groupsToDeploy[idx]
           call == [host |-> group.host.name, target |-> group.target,
                    colocated |-> SeqNames(group.colocated)]
       IN  IF ~getAdapter(group.target).ok
           THEN /\ pc' = "threw"
                /\ UNCHANGED <<calls, pendingUrl>>
           ELSE /\ calls' = Append(calls, call)
                /\ \/ \E url \in AdapterUrls :
                          /\ pendingUrl' = url
                          /\ pc' = "persist"
                   \/ /\ pc' = "threw"
                      /\ UNCHANGED pendingUrl
    /\ UNCHANGED <<file, dir, block, helper, runtime, proc, builds, dist, opts, scanned, config, resolved, plan,
                   groupsToDeploy, idx, results, fileWrites, run, history, mut>>

\* deployProject lines 92-99: updateConfigSetDeployResult, results.push
DeployPersist ==
    /\ pc = "persist"
    /\ \E group \in {groupsToDeploy[idx]} :
       \E r \in {updateConfigSetDeployResult(file, group.host.name, group.target,
                                             pendingUrl)} :
           /\ mut' = [op |-> "set", name |-> group.host.name,
                      deploy |-> Deploy(group.target, Undef, pendingUrl),
                      before |-> file,
                      threw |-> r.threw, err |-> r.err, writes |-> r.writes]
           /\ file' = AfterWrites(file, r.writes)
           /\ fileWrites' = fileWrites \o r.writes
           /\ IF r.threw
              THEN /\ pc' = "threw"
                   /\ UNCHANGED <<results, idx>>
              ELSE /\ results' = Append(results,
                                        [packageName |-> group.host.name,
                                         target |-> group.target,
                                         url |-> pendingUrl])
                   /\ idx' = idx + 1
                   /\ pc' = "deploy"
    /\ pendingUrl' = Undef
    /\ UNCHANGED <<dir, block, helper, runtime, proc, builds, dist, opts, scanned, config, resolved, plan,
                   groupsToDeploy, calls, run, history>>

\* deployProject line 102: return results
DeployReturn ==
    /\ pc = "deploy" /\ idx > Len(groupsToDeploy)
    /\ pc' = "returned"
    /\ UNCHANGED <<file, dir, block, helper, runtime, proc, builds, dist, opts, scanned, config, resolved, plan,
                   groupsToDeploy, idx, pendingUrl, results, calls, fileWrites,
                   run, history, mut>>

NextDeploy ==
    \/ StartDeploy
    \/ Redeploy
    \/ DeployLoad
    \/ DeploySelect
    \/ DeployBuild
    \/ DeployGroup
    \/ DeployPersist
    \/ DeployReturn

SpecDeploy ==
    InitDeploy /\ [][NextDeploy]_vars

\* ------------------------------------------------------------------------
\* Properties of deployProject
\* ------------------------------------------------------------------------

\* the call before the running one was the same bulk command (a target, no
\* package name), returned after deploying every group it selected, and the
\* packages block now loaded holds a url for the host of each of them
BulkRunRepeated ==
    /\ run >= 2 /\ pc # "load"
    /\ ~Truthy(opts.packageName) /\ Truthy(opts.target)
    /\ LET prev == history[Len(history)]
       IN  /\ prev.opts = opts
           /\ prev.outcome = "returned"
           /\ Len(prev.results) = Len(prev.hosts)
           /\ \A i \in 1..Len(prev.hosts) :
                  Truthy(DeployOrEmpty(config.packages, prev.hosts[i]).url)

\* C2: the second of two identical bulk runs, the first of which deployed
\* every selected group and persisted a url for its host, selects zero
\* groups, calls no adapter, writes nothing to the file and returns []
C2_SecondBulkRunIsNoop ==
    BulkRunRepeated =>
        /\ pc \in {"select", "returned"}
        /\ pc = "returned" => groupsToDeploy = <<>>
        /\ calls = <<>>
        /\ fileWrites = <<>>
        /\ results = <<>>

\* C2 witness: the first bulk run deployed at least one group, the second
\* has returned
C2_Witness ==
    /\ BulkRunRepeated
    /\ history[Len(history)].hosts # <<>>
    /\ pc = "returned"

\* C3: with a package name P and a target T, every adapter deploy of the
\* call is for a group that holds P and is made with target T, and a call
\* that returns has deployed such a group
C3_PackageDeployedToTarget ==
    (Truthy(opts.packageName) /\ Truthy(opts.target)) =>
        /\ \A i \in 1..Len(calls) :
               /\ calls[i].target = opts.target
               /\ opts.packageName \in {calls[i].host} \cup calls[i].colocated
        /\ (pc = "returned" /\ opts.packageName \in SeqNames(scanned.packages))
               => calls # <<>>

\* C4: when deployProject has returned, the packages block of the file holds
\* for every result r an entry for r.packageName that is exactly
\* { target: r.target, url: r.url }, r.url being the url the adapter returned
C4_ResultsArePersisted ==
    (pc = "returned" /\ results # <<>>) =>
        LET loaded == loadConfig(file)
        IN  /\ loaded.ok
            /\ Len(results) = Len(calls)
            /\ \A i \in 1..Len(results) :
                   /\ results[i].packageName = calls[i].host
                   /\ results[i].packageName \in DOMAIN loaded.config.packages
                   /\ loaded.config.packages[results[i].packageName]
                          = Deploy(results[i].target, Undef, results[i].url)

\* C29: for every adapter.deploy call made, dist/ holds a bundle of the
\* group's host that was built for the target the group is deployed with
C29_BundleBuiltForDeployTarget ==
    \A i \in 1..Len(calls) :
        [host |-> calls[i].host, target |-> calls[i].target] \in dist.bundles

\* the group is one the options ask to deploy
AskedFor(g) ==
    IF opts.packageName # Undef /\ opts.packageName # <<>>
    THEN \/ g.host.name = opts.packageName
         \/ \E i \in 1..Len(g.colocated) : g.colocated[i].name = opts.packageName
    ELSE IF opts.target # Undef /\ opts.target # <<>>
    THEN g.host.deploy.url \in {Undef, <<>>}
    ELSE TRUE

InDeployLoop ==
    run >= 1 /\ pc \in {"deploy", "persist", "returned", "threw"}

\* a step of the loop: what may start, and what may write, at that point
SequentialStep ==
    pc \in {"deploy", "persist"} =>
            /\ Len(calls') > Len(calls) =>
                  /\ pc = "deploy" /\ Len(calls') = Len(calls) + 1
                  /\ Len(results) = Len(calls)
                  /\ file' = file /\ fileWrites' = fileWrites
            /\ (file' # file \/ fileWrites' # fileWrites \/ results' # results) =>
                  /\ pc = "persist" /\ calls' = calls
                  /\ Len(calls) = Len(results) + 1
                  /\ mut'.name = calls[Len(calls)].host
                  /\ Len(fileWrites') <= Len(fileWrites) + 1

\* C19: one deployProject call has at most one adapter deploy or one
\* configuration update in progress. The k-th adapter.deploy is the one of
\* the k-th selected group; it is called only once every earlier deploy has
\* had its configuration update completed and its result pushed, and the
\* configuration file is written only by the update that follows the last
\* deploy called, before any further deploy is called.
C19_DeploysAreSequential ==
    /\ [](InDeployLoop =>
            /\ Len(calls) \in {Len(results), Len(results) + 1}
            /\ Len(fileWrites) <= Len(calls)
            /\ pc = "persist" => Len(calls) = Len(results) + 1 /\ idx = Len(calls)
            /\ pc \in {"deploy", "returned"} => Len(calls) = Len(results)
            /\ \A k \in 1..Len(calls) :
                  calls[k].host = groupsToDeploy[k].host.name
            /\ \A k \in 1..Len(results) :
                  results[k].packageName = calls[k].host)
    /\ [][SequentialStep]_vars

\* a call that deployed two groups, one after the other, and updated the
\* configuration file after each
C19_Witness ==
    /\ pc = "returned" /\ Len(calls) >= 2
    /\ Len(results) = Len(calls) /\ Len(fileWrites) = Len(calls)
    /\ calls[1].host # calls[2].host

\* a step of deployProject as C24 allows it
FailStopStep ==
    /\ file' # file =>
          /\ pc = "persist" /\ Truthy(pendingUrl)
          /\ Len(calls) = Len(results) + 1
          /\ Includes(file', pendingUrl)
    /\ (pc \in {"deploy", "persist"} /\ pc' = "threw") =>
          /\ file' = file /\ results' = results
          /\ Len(calls') <= Len(calls) + 1
    /\ pc = "threw" =>
          pc' = "threw" /\ calls' = calls /\ file' = file

\* C24: the file is written for a host only once its adapter deploy has
\* returned a url, which the written text carries; a failed adapter deploy
\* or config update ends the call as thrown in that step, with no further
\* adapter call or write, no retry, and the file as the last successful
\* update left it
C24_FailureStopsTheRun ==
    /\ [](InDeployLoop =>
            /\ pc \in {"deploy", "returned"} => Len(calls) = Len(results)
            /\ Len(fileWrites) = Len(results)
            /\ fileWrites # <<>> => file = fileWrites[Len(fileWrites)]
            /\ \A k \in 1..Len(fileWrites) :
                  Includes(fileWrites[k], results[k].url))
    /\ [][FailStopStep]_vars

\* the adapter deploy of a later group failed after an earlier group was
\* deployed and written
C24_Witness ==
    /\ pc = "threw" /\ Len(results) >= 1
    /\ Len(calls) = Len(results) + 1
    /\ fileWrites # <<>> /\ file = fileWrites[Len(fileWrites)]

\* ------------------------------------------------------------------------
\* kagaribi deploy (cli/src/commands/deploy.ts)
\* ------------------------------------------------------------------------

\* mutant: the dry-run flag is not looked at
isDryRun_IgnoresFlag(options) ==
    ~Truthy(options.target) /\ ~Truthy(options.environment)

\* deployCommand line 24-26: options.dryRun || (!hasTarget && !hasEnv)
isDryRun(options) ==
    options.dryRun \/ (~Truthy(options.target) /\ ~Truthy(options.environment))

\* options of the command: --env (absent, empty or a name), the package
\* argument, the target flag, --dry-run
CmdInputs ==
    [environment : {Undef, <<>>, N_prod},
     packageName : {Undef, N_root, N_auth},
     target : {Undef, T_deno},
     dryRun : BOOLEAN]

InitCmd ==
    /\ pc = "cmd"
    /\ \E p \in Projects :
          /\ file = p.file /\ dir = p.dir
          /\ dist \in {NoDist, buildProject(p.file, p.dir, Undef).dist}
    /\ opts = NoOpts
    /\ scanned = NoScan /\ config = NoConfig /\ resolved = <<>> /\ plan = NoPlan
    /\ groupsToDeploy = <<>> /\ idx = 0 /\ pendingUrl = Undef
    /\ results = <<>> /\ calls = <<>> /\ fileWrites = <<>> /\ run = 0
    /\ history = <<>> /\ mut = NoMut /\ builds = NoBuilds
    /\ proc = NoProc /\ runtime = NoRuntime
    /\ helper = NoHelper /\ block = NoBlock

\* deployCommand: showDeployInstructions on a dry run, else
\* executeDeployment, which calls deployProject with the options
DeployCommand ==
    /\ pc = "cmd"
    /\ \E o \in CmdInputs :
          IF isDryRun(o)
          THEN /\ opts' = o
               /\ pc' = "instructions"
               /\ UNCHANGED <<file, dir, block, helper, runtime, proc, builds, dist, scanned, config, resolved, plan,
                              groupsToDeploy, idx, pendingUrl, results, calls,
                              fileWrites, run, mut>>
          ELSE Enter(o)
    /\ UNCHANGED history

\* showDeployInstructions: exits when dist/ is absent, else loads, scans,
\* resolves, plans and prints the instructions of the groups of the package
ShowDeployInstructions ==
    /\ pc = "instructions"
    /\ IF ~dist.exists
       THEN /\ pc' = "exited"
            /\ UNCHANGED <<scanned, config, resolved, plan, groupsToDeploy>>
       ELSE \E loaded \in {loadConfig(file)}, scan \in {scanPackages(dir)} :
            IF ~loaded.ok
            THEN /\ pc' = "threw"
                 /\ UNCHANGED <<scanned, config, resolved, plan, groupsToDeploy>>
            ELSE \E res \in {resolvePackages(scan.packages, loaded.config,
                                             opts.environment)} :
                 \E p \in {createBuildPlan(res)} :
                 \E shown \in {filterGroupsForDeploy(p.groups, opts.packageName,
                                                     Undef)} :
                     /\ config' = loaded.config
                     /\ scanned' = scan
                     /\ resolved' = res
                     /\ plan' = p
                     /\ groupsToDeploy' = shown
                     /\ pc' = IF \A i \in 1..Len(shown) : getAdapter(shown[i].target).ok
                              THEN "shown" ELSE "threw"
    /\ UNCHANGED <<file, dir, block, helper, runtime, proc, builds, dist, opts, idx, pendingUrl, results, calls,
                   fileWrites, run, history, mut>>

NextCmd ==
    \/ DeployCommand
    \/ ShowDeployInstructions
    \/ DeployLoad
    \/ DeploySelect
    \/ DeployBuild
    \/ DeployGroup
    \/ DeployPersist
    \/ DeployReturn

SpecCmd ==
    InitCmd /\ [][NextCmd]_vars

\* the command did not call deployProject
DryRunTaken ==
    pc \in {"instructions", "shown", "exited"} \/ (pc = "threw" /\ run = 0)

\* C16: deployCommand calls deployProject exactly when dry-run is not forced
\* and a target or an environment is supplied; otherwise it only shows the
\* instructions, and no step of that path calls an adapter deploy or
\* changes kagaribi.config.ts
C16_LiveOnlyWhenAsked ==
    /\ [](pc # "cmd" =>
            /\ run = 1 <=> (~opts.dryRun
                            /\ (Truthy(opts.target) \/ Truthy(opts.environment)))
            /\ run = 0 <=> DryRunTaken
            /\ DryRunTaken => calls = <<>> /\ fileWrites = <<>> /\ mut = NoMut)
    /\ [][DryRunTaken => file' = file /\ calls' = calls]_vars

\* C16 witness: --dry-run together with a target and an environment has
\* shown the instructions of a built project
C16_Witness ==
    /\ pc = "shown" /\ run = 0
    /\ opts.dryRun /\ opts.target = T_deno /\ opts.environment = N_prod
    /\ groupsToDeploy # <<>>

\* ------------------------------------------------------------------------
\* buildProject: the group builds run concurrently
\* ------------------------------------------------------------------------

F_dist ==
    <<"d","i","s","t">>

F_work ==
    <<".","k","a","g","a","r","i","b","i">>

F_build ==
    <<"b","u","i","l","d">>

F_app ==
    <<"a","p","p",".","t","s">>

F_entry ==
    <<"e","n","t","r","y",".","t","s">>

F_index ==
    <<"i","n","d","e","x",".","j","s">>

F_config ==
    <<"D","o","c","k","e","r","f","i","l","e">>

\* mutant: every group is built into the output directory itself
groupOutDir_Shared(outDir, group) ==
    outDir

\* buildGroup line 119: resolve(outDir, group.host.name)
groupOutDir(outDir, group) ==
    Append(outDir, group.host.name)

\* buildGroup line 134: resolve(projectRoot, '.kagaribi', 'build', host.name)
entryDir(group) ==
    <<F_work, F_build, group.host.name>>

\* adapter.generateConfigs: file names relative to the group's directory
generateConfigs(group) ==
    {F_config}

\* mkdir and writeFile: the entry at path is made or replaced; by records
\* the index of the group build that issued the call
writeFile(fs, path, by) ==
    {f \in fs : f.path # path} \cup {[path |-> path, by |-> by]}

\* Promise.all over the group builds: rejected with the first rejection,
\* fulfilled once every build is fulfilled, pending otherwise
PromiseAll(promise, at) ==
    IF promise = "rejected" THEN "rejected"
    ELSE IF \E i \in 1..Len(at) : at[i] = "failed" THEN "rejected"
    ELSE IF \A i \in 1..Len(at) : at[i] = "done" THEN "fulfilled"
    ELSE "pending"

InitBuild ==
    /\ pc = "idle"
    /\ \E p \in Projects : file = p.file /\ dir = p.dir
    /\ dist = NoDist
    /\ opts \in {o \in OptsInputs : o.packageName = Undef /\ o.target = Undef}
    /\ scanned = NoScan /\ config = NoConfig /\ resolved = <<>> /\ plan = NoPlan
    /\ groupsToDeploy = <<>> /\ idx = 0 /\ pendingUrl = Undef
    /\ results = <<>> /\ calls = <<>> /\ fileWrites = <<>> /\ run = 0
    /\ history = <<>> /\ mut = NoMut /\ builds = NoBuilds
    /\ proc = NoProc /\ runtime = NoRuntime
    /\ helper = NoHelper /\ block = NoBlock

\* what a step of a group build leaves alone
BuildFrame ==
    UNCHANGED <<file, dir, block, helper, runtime, proc, dist, opts, scanned, config, resolved, plan,
                groupsToDeploy, idx, pendingUrl, results, calls, fileWrites,
                run, history, mut>>

\* buildProject lines 84-105: the plan is made, and every buildGroup runs up
\* to its first await, the mkdir of its output directory
BuildStart ==
    /\ pc = "idle"
    /\ \E loaded \in {loadConfig(file)} :
          IF ~loaded.ok
          THEN /\ pc' = "threw"
               /\ builds' = [builds EXCEPT !.promise = "rejected"]
               /\ UNCHANGED <<scanned, config, resolved, plan>>
          ELSE \E sc \in {scanPackages(dir)} :
               \E rs \in {resolvePackages(sc.packages, loaded.config,
                                          opts.environment)} :
               \E pl \in {createBuildPlan(rs)} :
                  /\ config' = loaded.config /\ scanned' = sc
                  /\ resolved' = rs /\ plan' = pl
                  /\ pc' = "building"
                  /\ \E at \in {[i \in 1..Len(pl.groups) |-> "mkdir"]} :
                        builds' = [promise |-> PromiseAll("pending", at),
                                   at |-> at, fs |-> {}]
    /\ UNCHANGED <<file, dir, block, helper, runtime, proc, dist, opts, groupsToDeploy, idx, pendingUrl,
                   results, calls, fileWrites, run, history, mut>>

\* the awaited call of group build i settles: it fails, or it writes the
\* paths and the build goes on to its next await
BuildSettle(i, from, to, paths, ok) ==
    /\ pc = "building"
    /\ i \in 1..Len(builds.at) /\ builds.at[i] = from
    /\ \E at \in {[builds.at EXCEPT ![i] = IF ok THEN to ELSE "failed"]} :
          builds' = [promise |-> PromiseAll(builds.promise, at),
                     at |-> at,
                     fs |-> IF ok THEN paths ELSE builds.fs]
    /\ pc' = pc
    /\ BuildFrame

\* buildGroup lines 119-131: mkdir of the output directory, then getAdapter
\* and the call of generateBuildCode
BuildMkdir ==
    \E i \in 1..Len(plan.groups), ok \in BOOLEAN :
        BuildSettle(i, "mkdir",
                    IF getAdapter(plan.groups[i].target).ok
                    THEN "codegen" ELSE "failed",
                    writeFile(builds.fs,
                              groupOutDir(<<F_dist>>, plan.groups[i]), i),
                    ok)

\* buildGroup lines 131-137: generateBuildCode has written the merged
\* application beside the entry point; writeFile of entry.ts is called
BuildCodegen ==
    \E i \in 1..Len(plan.groups), ok \in BOOLEAN :
        BuildSettle(i, "codegen", "entry",
                    writeFile(builds.fs,
                              Append(entryDir(plan.groups[i]), F_app), i),
                    ok)

\* buildGroup lines 137-145: entry.ts is written; bundlePackage is called
BuildEntry ==
    \E i \in 1..Len(plan.groups), ok \in BOOLEAN :
        BuildSettle(i, "entry", "bundle",
                    writeFile(builds.fs,
                              Append(entryDir(plan.groups[i]), F_entry), i),
                    ok)

\* buildGroup lines 140-153: esbuild has written index.js; the writes of
\* the adapter's configuration files are called
BuildBundle ==
    \E i \in 1..Len(plan.groups), ok \in BOOLEAN :
        BuildSettle(i, "bundle", "configs",
                    writeFile(builds.fs,
                              Append(groupOutDir(<<F_dist>>, plan.groups[i]),
                                     F_index), i),
                    ok)

\* buildGroup lines 148-154: the configuration files are written
BuildConfigs ==
    \E i \in 1..Len(plan.groups), ok \in BOOLEAN :
        \E name \in generateConfigs(plan.groups[i]) :
            BuildSettle(i, "configs", "done",
                        writeFile(builds.fs,
                                  Append(groupOutDir(<<F_dist>>,
                                                     plan.groups[i]), name),
                                  i),
                        ok)

NextBuild ==
    \/ BuildStart
    \/ BuildMkdir
    \/ BuildCodegen
    \/ BuildEntry
    \/ BuildBundle
    \/ BuildConfigs

SpecBuild ==
    InitBuild /\ [][NextBuild]_vars

\* the entries of the output directory dist/<name>
OutputDir(fs, name) ==
    {f \in fs : Len(f.path) >= 2 /\ f.path[1] = F_dist /\ f.path[2] = name}

\* the entries under dist
UnderDist(fs) ==
    {f \in fs : f.path[1] = F_dist}

HostNames ==
    {plan.groups[i].host.name : i \in 1..Len(plan.groups)}

X_wrangler ==
    <<"w","r","a","n","g","l","e","r">>

X_gcloud ==
    <<"g","c","l","o","u","d">>

X_aws ==
    <<"a","w","s">>

X_deployctl ==
    <<"d","e","p","l","o","y","c","t","l">>

X_pnpm ==
    <<"p","n","p","m">>

A_deploy ==
    <<"d","e","p","l","o","y">>

A_prod ==
    <<"-","-","p","r","o","d">>

H_wrangler ==
    <<"n","p","m"," ","i","n","s","t","a","l","l"," ","-","g"," ","w","r",
      "a","n","g","l","e","r">>

H_gcloud ==
    <<"h","t","t","p","s",":","/","/","c","l","o","u","d",".","g","o","o",
      "g","l","e",".","c","o","m","/","s","d","k","/","d","o","c","s","/",
      "i","n","s","t","a","l","l">>

H_aws ==
    <<"h","t","t","p","s",":","/","/","d","o","c","s",".","a","w","s",".",
      "a","m","a","z","o","n",".","c","o","m","/","c","l","i","/","l","a",
      "t","e","s","t","/","u","s","e","r","g","u","i","d","e","/","g","e",
      "t","t","i","n","g","-","s","t","a","r","t","e","d","-","i","n","s",
      "t","a","l","l",".","h","t","m","l">>

H_deployctl ==
    <<"d","e","n","o"," ","i","n","s","t","a","l","l"," ","-","A"," ","j",
      "s","r",":","@","d","e","n","o","/","d","e","p","l","o","y","c","t",
      "l">>

E_stderr ==
    <<"E","R","R","O","R",":"," ","d","e","n","i","e","d","\n">>

E_stdout ==
    <<"o","k","\n">>

M_Command ==
    <<"C","o","m","m","a","n","d"," ","\"">>

M_notFound ==
    <<"\""," ","n","o","t"," ","f","o","u","n","d",".">>

M_install ==
    <<" ","I","n","s","t","a","l","l"," ","i","t"," ","w","i","t","h",":",
      " ">>

M_failed ==
    <<"\""," ","f","a","i","l","e","d",":","\n">>

M_raw ==
    <<"C","o","m","m","a","n","d"," ","f","a","i","l","e","d",":"," ">>

M_space ==
    <<" ">>

\* the commands CLI_INSTALL_HINTS has a hint for
HintedCommands ==
    {X_wrangler, X_gcloud, X_aws, X_deployctl}

\* CLI_INSTALL_HINTS[command]
CLI_INSTALL_HINTS(command) ==
    CASE command = X_wrangler -> H_wrangler
      [] command = X_gcloud -> H_gcloud
      [] command = X_aws -> H_aws
      [] command = X_deployctl -> H_deployctl
      [] OTHER -> Undef

\* the error execFile rejects with when the child has failed
ChildError(command, commandArgs, child) ==
    [wrapped |-> FALSE,
     message |-> M_raw \o Join(<<command>> \o commandArgs, M_space)
                    \o <<"\n">> \o child.stderr]

\* exec lines 22-54, given how the child process ended
exec(command, commandArgs, child) ==
    IF child.code = "0"
    THEN [threw |-> FALSE, stdout |-> child.stdout, stderr |-> child.stderr,
          error |-> NoError]
    ELSE [threw |-> TRUE, stdout |-> <<>>, stderr |-> <<>>,
          error |->
            IF child.code = "ENOENT"
            THEN [wrapped |-> TRUE,
                  message |-> M_Command \o command \o M_notFound
                              \o (IF Truthy(CLI_INSTALL_HINTS(command))
                                  THEN M_install \o CLI_INSTALL_HINTS(command)
                                  ELSE <<>>)]
            ELSE IF Truthy(child.stderr)
            THEN [wrapped |-> TRUE,
                  message |-> M_Command
                              \o Join(<<command>> \o commandArgs, M_space)
                              \o M_failed \o child.stderr]
            ELSE ChildError(command, commandArgs, child)]

\* number of arguments of a command line
MaxArgs ==
    2

\* argument lists of up to MaxArgs arguments
ArgLists ==
    UNION {[1..n -> {A_deploy, A_prod}] : n \in 0..MaxArgs}

\* how a child process ends: exit 0, the binary is missing, a non-zero exit
ChildOutcomes ==
    [code : {"0"}, stdout : {E_stdout}, stderr : {<<>>, E_stderr}]
    \cup [code : {"ENOENT"}, stdout : {<<>>}, stderr : {<<>>}]
    \cup [code : {"1"}, stdout : {<<>>, E_stdout}, stderr : {<<>>, E_stderr}]

InitExec ==
    /\ pc = "idle"
    /\ file = <<>> /\ dir = <<>> /\ dist = NoDist /\ opts = NoOpts
    /\ scanned = NoScan /\ config = NoConfig /\ resolved = <<>> /\ plan = NoPlan
    /\ groupsToDeploy = <<>> /\ idx = 0 /\ pendingUrl = Undef
    /\ results = <<>> /\ calls = <<>> /\ fileWrites = <<>> /\ run = 0
    /\ history = <<>> /\ mut = NoMut /\ builds = NoBuilds
    /\ proc = NoProc /\ runtime = NoRuntime
    /\ helper = NoHelper /\ block = NoBlock

\* what the steps of exec leave alone
ExecFrame ==
    UNCHANGED <<file, dir, block, helper, runtime, dist, opts, scanned, config, resolved, plan,
                groupsToDeploy, idx, pendingUrl, results, calls, fileWrites,
                run, history, mut, builds>>

\* exec line 28: execFileAsync is called
ExecCall ==
    /\ pc = "idle"
    /\ \E command \in HintedCommands \cup {X_pnpm}, commandArgs \in ArgLists :
          proc' = [NoProc EXCEPT !.command = command,
                                 !.commandArgs = commandArgs]
    /\ pc' = "spawned"
    /\ ExecFrame

\* the child process ends, or could not be spawned
ExecChild ==
    /\ pc = "spawned"
    /\ \E child \in ChildOutcomes : proc' = [proc EXCEPT !.child = child]
    /\ pc' = "settling"
    /\ ExecFrame

\* exec lines 28-53: the await settles: return, or the catch block
ExecSettle ==
    /\ pc = "settling"
    /\ \E r \in {exec(proc.command, proc.commandArgs, proc.child)} :
          /\ proc' = [proc EXCEPT !.stdout = r.stdout, !.stderr = r.stderr,
                                  !.error = r.error]
          /\ pc' = IF r.threw THEN "threw" ELSE "returned"
    /\ ExecFrame

NextExec ==
    \/ ExecCall
    \/ ExecChild
    \/ ExecSettle

SpecExec ==
    InitExec /\ [][NextExec]_vars

\* C20: when the command is missing or exits non-zero, exec throws an Error
\* of its own and not the error it caught; for a missing binary that has an
\* install hint the message says not found and gives the hint, for a
\* non-zero exit the message contains the captured stderr
C20_FailuresAreWrapped ==
    (pc \in {"returned", "threw"} /\ proc.child.code # "0") =>
        /\ pc = "threw"
        /\ proc.error.wrapped
        /\ proc.child.code = "ENOENT" =>
              /\ Includes(proc.error.message, <<"n","o","t"," ","f","o","u","n","d">>)
              /\ proc.command \in HintedCommands =>
                    Includes(proc.error.message, CLI_INSTALL_HINTS(proc.command))
        /\ proc.child.code = "1" =>
              Includes(proc.error.message, proc.child.stderr)

\* ------------------------------------------------------------------------
\* Environment-variable references in url (scanner.ts resolveEnvVar, mount.ts)
\* ------------------------------------------------------------------------

V_AUTH_URL ==
    <<"A","U","T","H","_","U","R","L">>

U_envRef ==
    <<"$","A","U","T","H","_","U","R","L">>

E_authEnvUrl ==
    <<" "," "," "," ","a","u","t","h",":"," ","{"," ","t","a","r","g","e",
      "t",":"," ","'","d","e","n","o","'",","," ","u","r","l",":"," ","'",
      "$","A","U","T","H","_","U","R","L","'"," ","}",",","\n">>

\* a remote package whose url is an environment-variable reference
FileEnvUrl ==
    FileHead \o PkgOpen \o E_root \o E_authEnvUrl \o PkgClose \o FileEnd

EnvProdUrl ==
    <<" "," ","e","n","v","i","r","o","n","m","e","n","t","s",":"," ","{",
      "\n"," "," "," "," ","p","r","o","d",":"," ","{","\n"," "," "," "," ",
      " "," ","p","a","c","k","a","g","e","s",":"," ","{","\n"," "," "," ",
      " "," "," "," "," ","a","u","t","h",":"," ","{"," ","u","r","l",":",
      " ","'","h",":","/","/","a","'"," ","}",",","\n"," "," "," "," "," ",
      " ","}",",","\n"," "," "," "," ","}",",","\n"," "," ","}",",","\n">>

\* the environment gives a url to a package that is deployed on its own
FileEnvOverride ==
    FileHead \o PkgOpen \o E_root \o E_authDeno \o PkgClose \o EnvProdUrl \o FileEnd

\* process.env[name]
Getenv(env, name) ==
    IF \E e \in env : e.name = name
    THEN (CHOOSE e \in env : e.name = name).value
    ELSE Undef

\* mutant: a reference to a variable that is not set is passed on
resolveEnvVar_NoThrow(value, env) ==
    IF At(value, 0) = "$"
    THEN [threw |-> FALSE,
          value |-> IF Getenv(env, Tail(value)) = Undef
                    THEN value ELSE Getenv(env, Tail(value))]
    ELSE [threw |-> FALSE, value |-> value]

\* resolveEnvVar
resolveEnvVar(value, env) ==
    IF At(value, 0) = "$"
    THEN IF Getenv(env, Tail(value)) = Undef
         THEN [threw |-> TRUE, value |-> Undef]
         ELSE [threw |-> FALSE, value |-> Getenv(env, Tail(value))]
    ELSE [threw |-> FALSE, value |-> value]

RECURSIVE MountLoop(_, _, _, _)
\* the loop of mountPackages from the i-th resolved package on
MountLoop(resolvedPkgs, i, env, routes) ==
    IF i > Len(resolvedPkgs) THEN [threw |-> FALSE, routes |-> routes]
    ELSE Once({
        IF pkg.name = N_root
        THEN MountLoop(resolvedPkgs, i + 1, env,
                       Append(routes, [name |-> pkg.name, kind |-> "route",
                                       target |-> Undef]))
        ELSE IF pkg.mode = "local"
        THEN MountLoop(resolvedPkgs, i + 1, env,
                       Append(routes, [name |-> pkg.name, kind |-> "route",
                                       target |-> Undef]))
        ELSE Once({
            IF t.threw \/ ~Truthy(t.value)
            THEN [threw |-> TRUE, routes |-> routes]
            ELSE MountLoop(resolvedPkgs, i + 1, env,
                           Append(routes, [name |-> pkg.name, kind |-> "proxy",
                                           target |-> t.value])) :
            t \in {IF Truthy(pkg.deploy.url)
                   THEN resolveEnvVar(pkg.deploy.url, env)
                   ELSE [threw |-> FALSE, value |-> Undef]}}) :
        pkg \in {resolvedPkgs[i]}})

\* mountPackages
mountPackages(resolvedPkgs, env) ==
    MountLoop(resolvedPkgs, 1, env, <<>>)

\* process.env: AUTH_URL not set, set to a url, set to the empty string
EnvInputs ==
    {{}, {[name |-> V_AUTH_URL, value |-> U_a]},
     {[name |-> V_AUTH_URL, value |-> <<>>]}}

InitEnv ==
    /\ pc = "idle"
    /\ \E p \in {[file |-> FileEnvUrl, dir |-> DirOf(<<N_root, N_auth>>)],
                 [file |-> FileBasic, dir |-> DirOf(<<N_root, N_auth>>)],
                 [file |-> FileEnvOverride, dir |-> DirOf(<<N_root, N_auth>>)]} :
          /\ file = p.file /\ dir = p.dir
          /\ dist \in {NoDist, buildProject(p.file, p.dir, Undef).dist}
    /\ opts = NoOpts
    /\ scanned = NoScan /\ config = NoConfig /\ resolved = <<>> /\ plan = NoPlan
    /\ groupsToDeploy = <<>> /\ idx = 0 /\ pendingUrl = Undef
    /\ results = <<>> /\ calls = <<>> /\ fileWrites = <<>> /\ run = 0
    /\ history = <<>> /\ mut = NoMut /\ builds = NoBuilds
    /\ proc = NoProc
    /\ \E env \in EnvInputs : runtime = [NoRuntime EXCEPT !.env = env]
    /\ helper = NoHelper /\ block = NoBlock

\* the application starts: the packages are resolved from the configuration
\* as it is now, and mountPackages mounts them
MountPackages ==
    /\ pc \in {"idle", "returned"}
    /\ \E loaded \in {loadConfig(file)} :
          /\ loaded.ok
          /\ \E rs \in {resolvePackages(scanPackages(dir).packages,
                                        loaded.config, opts.environment)} :
             \E m \in {mountPackages(rs, runtime.env)} :
                /\ resolved' = rs
                /\ runtime' = [runtime EXCEPT !.routes = m.routes,
                                              !.threw = m.threw]
    /\ pc' = "mounted"
    /\ UNCHANGED <<file, dir, block, helper, proc, builds, dist, opts, scanned, config, plan,
                   groupsToDeploy, idx, pendingUrl, results, calls, fileWrites,
                   run, history, mut>>

NextEnv ==
    \/ StartDeploy
    \/ DeployLoad
    \/ DeploySelect
    \/ DeployBuild
    \/ DeployGroup
    \/ DeployPersist
    \/ DeployReturn
    \/ MountPackages

SpecEnv ==
    InitEnv /\ [][NextEnv]_vars

\* the url is a reference to a variable that is not set
DanglingRef(url, env) ==
    Truthy(url) /\ At(url, 0) = "$" /\ Getenv(env, Tail(url)) = Undef

\* C21 as stated: a deploy of a project that has a package whose url refers
\* to a variable that is not set fails
C21_DeployFailsOnUnsetVariable ==
    (pc = "returned" /\ run = 1) =>
        \A i \in 1..Len(resolved) :
            ~DanglingRef(resolved[i].deploy.url, runtime.env)

\* C28: when the packages are resolved again for the environment of a
\* deploy that has returned, every deployed host has the url the adapter
\* returned for it
C28_ReResolvedUrlIsDeployed ==
    (pc = "mounted" /\ results # <<>>) =>
        \A i \in 1..Len(results) :
            \E k \in 1..Len(resolved) :
                /\ resolved[k].name = results[i].packageName
                /\ resolved[k].deploy.url = results[i].url

\* the packages mountPackages makes a proxy for
Proxied(resolvedPkgs) ==
    {i \in 1..Len(resolvedPkgs) :
        resolvedPkgs[i].name # N_root /\ resolvedPkgs[i].mode = "remote"}

\* C21 amended: the reference is resolved when mountPackages mounts a remote
\* package: it throws exactly when a remote package's url is missing, refers
\* to a variable that is not set or resolves to the empty string, and else
\* every proxy targets the variable's value (or the url as written). The
\* steps of deployProject carry the url as the configuration has it.
C21_ResolvedWhenMounted ==
    /\ pc = "mounted" =>
          /\ runtime.threw <=>
                \E i \in Proxied(resolved) :
                    \/ DanglingRef(resolved[i].deploy.url, runtime.env)
                    \/ ~Truthy(resolveEnvVar(resolved[i].deploy.url,
                                             runtime.env).value)
          /\ ~runtime.threw =>
                /\ Len(runtime.routes) = Len(resolved)
                /\ \A i \in Proxied(resolved) :
                      /\ runtime.routes[i].kind = "proxy"
                      /\ runtime.routes[i].target =
                            IF At(resolved[i].deploy.url, 0) = "$"
                            THEN Getenv(runtime.env, Tail(resolved[i].deploy.url))
                            ELSE resolved[i].deploy.url
    /\ pc \in {"select", "build", "deploy", "persist", "returned"} =>
          \A i \in 1..Len(resolved) :
              (/\ resolved[i].name \in DOMAIN config.packages
               /\ ~Truthy(opts.environment)
               /\ ~Truthy(opts.target)) =>
                  resolved[i].deploy.url = config.packages[resolved[i].name].url

\* mountPackages has thrown for a reference to a variable that is not set,
\* after a deploy of the same project returned
C21_Witness ==
    /\ pc = "mounted" /\ runtime.threw /\ run = 1
    /\ \E i \in Proxied(resolved) :
          DanglingRef(resolved[i].deploy.url, runtime.env)

\* ------------------------------------------------------------------------
\* createDbHelper (db-helper.ts)
\* ------------------------------------------------------------------------

\* number of initDb and getDb calls on the helper
MaxCalls ==
    4

\* the sources initDb is called with: '', and two connection strings
DbSources ==
    {<<>>, U_a, U_b}

\* what the caller's createConnection does: throw, return a connection
\* object, or return a falsy value
ConnectionOutcomes ==
    {"throws", "object", "falsy"}

\* mutant: initDb without the check of _db
initDb_NoGuard(h, source, outcome) ==
    IF ~Truthy(source)
    THEN [h EXCEPT !.log = Append(@, [op |-> "initDb", invoked |-> FALSE,
                                      threw |-> TRUE, value |-> NoDb])]
    ELSE [db |-> IF outcome = "throws" THEN h.db
                 ELSE [id |-> h.invoked + 1, truthy |-> outcome = "object"],
          invoked |-> h.invoked + 1,
          log |-> Append(h.log, [op |-> "initDb", invoked |-> TRUE,
                                 threw |-> outcome = "throws",
                                 value |-> IF outcome = "throws" THEN NoDb
                                           ELSE [id |-> h.invoked + 1,
                                                 truthy |-> outcome = "object"]])]

\* initDb(source), createConnection behaving as outcome says if it is called
initDb(h, source, outcome) ==
    IF h.db.truthy
    THEN [h EXCEPT !.log = Append(@, [op |-> "initDb", invoked |-> FALSE,
                                      threw |-> FALSE, value |-> NoDb])]
    ELSE IF ~Truthy(source)
    THEN [h EXCEPT !.log = Append(@, [op |-> "initDb", invoked |-> FALSE,
                                      threw |-> TRUE, value |-> NoDb])]
    ELSE [db |-> IF outcome = "throws" THEN h.db
                 ELSE [id |-> h.invoked + 1, truthy |-> outcome = "object"],
          invoked |-> h.invoked + 1,
          log |-> Append(h.log, [op |-> "initDb", invoked |-> TRUE,
                                 threw |-> outcome = "throws",
                                 value |-> IF outcome = "throws" THEN NoDb
                                           ELSE [id |-> h.invoked + 1,
                                                 truthy |-> outcome = "object"]])]

\* getDb()
getDb(h) ==
    [h EXCEPT !.log = Append(@, [op |-> "getDb", invoked |-> FALSE,
                                 threw |-> ~h.db.truthy,
                                 value |-> IF h.db.truthy THEN h.db ELSE NoDb])]

InitDb ==
    /\ pc = "idle"
    /\ file = <<>> /\ dir = <<>> /\ dist = NoDist /\ opts = NoOpts
    /\ scanned = NoScan /\ config = NoConfig /\ resolved = <<>> /\ plan = NoPlan
    /\ groupsToDeploy = <<>> /\ idx = 0 /\ pendingUrl = Undef
    /\ results = <<>> /\ calls = <<>> /\ fileWrites = <<>> /\ run = 0
    /\ history = <<>> /\ mut = NoMut /\ builds = NoBuilds
    /\ proc = NoProc /\ runtime = NoRuntime
    /\ helper = NoHelper /\ block = NoBlock

\* what a call on the helper leaves alone
HelperFrame ==
    UNCHANGED <<pc, file, dir, block, dist, opts, scanned, config, resolved, plan,
                groupsToDeploy, idx, pendingUrl, results, calls, fileWrites,
                run, history, mut, builds, proc, runtime>>

\* some caller calls initDb
CallInitDb ==
    /\ Len(helper.log) < MaxCalls
    /\ \E source \in DbSources, outcome \in ConnectionOutcomes :
          helper' = initDb(helper, source, outcome)
    /\ HelperFrame

\* some caller calls getDb
CallGetDb ==
    /\ Len(helper.log) < MaxCalls
    /\ helper' = getDb(helper)
    /\ HelperFrame

NextDb ==
    \/ CallInitDb
    \/ CallGetDb

SpecDb ==
    InitDb /\ [][NextDb]_vars

\* the calls, by position, in which createConnection returned a connection
\* object
Connected ==
    {k \in 1..Len(helper.log) :
        /\ helper.log[k].op = "initDb" /\ helper.log[k].invoked
        /\ ~helper.log[k].threw /\ helper.log[k].value.truthy}

\* the initDb calls that returned normally
Succeeded ==
    {k \in 1..Len(helper.log) :
        helper.log[k].op = "initDb" /\ ~helper.log[k].threw}

\* C23 as stated: createConnection is invoked at most once; getDb throws
\* until an initDb has succeeded and afterwards returns the connection the
\* first successful initDb created
C23_ConnectsAtMostOnce ==
    /\ helper.invoked <= 1
    /\ \A k \in 1..Len(helper.log) :
          helper.log[k].op = "getDb" =>
              /\ helper.log[k].threw <=> ~\E j \in Succeeded : j < k
              /\ ~helper.log[k].threw =>
                    helper.log[k].value = helper.log[MinOf(Succeeded)].value

\* C23 amended: createConnection is never invoked after an invocation that
\* returned a connection object; getDb throws until such an invocation and
\* afterwards returns the connection it made. An invocation that throws or
\* returns a falsy value leaves the helper uninitialized.
C23_OneConnectionKept ==
    /\ Cardinality(Connected) <= 1
    /\ \A k \in 1..Len(helper.log) :
          /\ helper.log[k].invoked => ~\E j \in Connected : j < k
          /\ helper.log[k].op = "getDb" =>
                /\ helper.log[k].threw <=> ~\E j \in Connected : j < k
                /\ ~helper.log[k].threw =>
                      helper.log[k].value = helper.log[MinOf(Connected)].value

\* a connection was made after a failed attempt, a further initDb with
\* another source changed nothing, and getDb returned the connection
C23_Witness ==
    /\ Len(helper.log) = 4
    /\ helper.log[1].invoked /\ helper.log[1].threw
    /\ helper.log[2].invoked /\ helper.log[2].value.truthy
    /\ helper.log[3].op = "initDb" /\ ~helper.log[3].invoked
    /\ helper.log[4].op = "getDb" /\ helper.log[4].value = helper.log[2].value

\* ------------------------------------------------------------------------
\* findPackagesBlock on texts made of braces, comment marks and quotes
\* ------------------------------------------------------------------------

\* number of pieces written after `packages: {`
MaxPieces ==
    4

\* the pieces a text is made of
Pieces ==
    {<<"{">>, <<"}">>, <<"/","/">>, <<"/","*">>, <<"*","/">>, <<"'">>,
     <<"\"">>, <<BackQuote>>, <<"\\">>, <<"\n">>, <<"a">>}

InitBlock ==
    /\ pc = "text"
    /\ file = S_packages \o <<" ", "{">>
    /\ dir = <<>> /\ dist = NoDist /\ opts = NoOpts
    /\ scanned = NoScan /\ config = NoConfig /\ resolved = <<>> /\ plan = NoPlan
    /\ groupsToDeploy = <<>> /\ idx = 0 /\ pendingUrl = Undef
    /\ results = <<>> /\ calls = <<>> /\ fileWrites = <<>> /\ run = 0
    /\ history = <<>> /\ mut = NoMut /\ builds = NoBuilds
    /\ proc = NoProc /\ runtime = NoRuntime
    /\ helper = NoHelper /\ block = NoBlock

\* what writing and scanning the text leave alone
BlockFrame ==
    UNCHANGED <<dir, dist, opts, scanned, config, resolved, plan,
                groupsToDeploy, pendingUrl, results, calls, fileWrites,
                run, history, mut, builds, proc, runtime, helper>>

\* the text grows by one piece
WritePiece ==
    /\ pc = "text" /\ idx < MaxPieces
    /\ \E piece \in Pieces : file' = file \o piece
    /\ idx' = idx + 1
    /\ UNCHANGED <<pc, block>>
    /\ BlockFrame

\* findPackagesBlock(content) on the text
FindPackagesBlock ==
    /\ pc = "text"
    /\ block' = findPackagesBlock(file)
    /\ pc' = "found"
    /\ UNCHANGED <<file, idx>>
    /\ BlockFrame

NextBlock ==
    \/ WritePiece
    \/ FindPackagesBlock

SpecBlock ==
    InitBlock /\ [][NextBlock]_vars

RECURSIVE Balance(_, _, _, _)
\* the position of the brace that brings the depth to zero, reading the text
\* one character at a time from i in the given lexical mode; -1 if none
Balance(content, i, mode, depth) ==
    IF i >= Len(content) THEN -1
    ELSE Once({
        IF mode = "code"
        THEN IF ch = "/" /\ At(content, i + 1) = "/"
             THEN Balance(content, i + 2, "line", depth)
             ELSE IF ch = "/" /\ At(content, i + 1) = "*"
             THEN Balance(content, i + 2, "block", depth)
             ELSE IF ch \in {"'", "\"", BackQuote}
             THEN Balance(content, i + 1, ch, depth)
             ELSE IF ch = "{" THEN Balance(content, i + 1, mode, depth + 1)
             ELSE IF ch = "}"
             THEN IF depth = 1 THEN i
                  ELSE Balance(content, i + 1, mode, depth - 1)
             ELSE Balance(content, i + 1, mode, depth)
        ELSE IF mode = "line"
        THEN Balance(content, i + 1, IF ch = "\n" THEN "code" ELSE mode, depth)
        ELSE IF mode = "block"
        THEN IF ch = "*" /\ At(content, i + 1) = "/"
             THEN Balance(content, i + 2, "code", depth)
             ELSE Balance(content, i + 1, mode, depth)
        ELSE IF ch = "\\" THEN Balance(content, i + 2, mode, depth)
        ELSE Balance(content, i + 1, IF ch = mode THEN "code" ELSE mode, depth) :
        ch \in {At(content, i)}})

\* C25: the block returned starts after the first `{` that follows the
\* `packages:` token and ends at the brace that balances it, braces in
\* comments, quoted strings and template literals not counted; when no
\* brace balances it, findPackagesBlock throws
C25_BalancedBlock ==
    pc = "found" =>
        \E open \in {IndexOf(file, <<"{">>, IndexOf(file, S_packages, 0))} :
        \E close \in {Balance(file, open + 1, "code", 1)} :
            IF close = -1 THEN ~block.ok
            ELSE /\ block.ok
                 /\ block.start = open + 1 /\ block.end = close

\* a block whose interior holds a closing brace in a comment
C25_Witness ==
    /\ pc = "found" /\ block.ok
    /\ Slice(file, block.start, block.end) = <<"/","*","}","*","/">>

\* ------------------------------------------------------------------------
\* newCommand: scaffoldPackage, then updateConfigAddPackage
\* ------------------------------------------------------------------------

\* the regular expression class [a-z]
LowerLetters ==
    {"a","b","c","d","e","f","g","h","i","j","k","l","m","n","o","p","q","r",
     "s","t","u","v","w","x","y","z"}

\* validatePackageName: TRUE stands for returning, FALSE for the thrown Error
validatePackageName(name) ==
    /\ Len(name) > 0
    /\ name[1] \in LowerLetters
    /\ \A k \in 2..Len(name) : name[k] \in LowerLetters \cup Digits \cup {"-"}

\* scaffoldPackage on a packages/ directory holding entries: the name is
\* validated, an existing packages/<name> is an error, otherwise the
\* directory is made with its manifest and src/index.ts
scaffoldPackage(entries, name) ==
    IF ~validatePackageName(name)
    THEN [threw |-> TRUE, entries |-> entries]
    ELSE IF \E i \in 1..Len(entries) : entries[i].name = name
    THEN [threw |-> TRUE, entries |-> entries]
    ELSE [threw |-> FALSE,
          entries |-> Append(entries, [name |-> name, isDirectory |-> TRUE,
                                       manifest |-> name])]

\* an upper-case name, which validatePackageName rejects
N_Bad ==
    <<"A","p","i">>

\* names given to `kagaribi new`
NewNames ==
    {N_auth, N_oauth, N_api, N_Bad, <<>>}

\* configuration files `kagaribi new` is run on
NewFiles ==
    {FileBasic, FileSuffix, FileComment, FileNoToken, FileTruncated}

InitNew ==
    /\ pc = "idle"
    /\ file \in NewFiles
    /\ dir \in {DirOf(<<N_root>>), DirOf(<<N_root, N_auth>>)}
    /\ dist = NoDist /\ opts = NoOpts
    /\ scanned = NoScan /\ config = NoConfig /\ resolved = <<>> /\ plan = NoPlan
    /\ groupsToDeploy = <<>> /\ idx = 0 /\ pendingUrl = Undef
    /\ results = <<>> /\ calls = <<>> /\ fileWrites = <<>> /\ run = 0
    /\ history = <<>> /\ mut = NoMut /\ builds = NoBuilds
    /\ proc = NoProc /\ runtime = NoRuntime
    /\ helper = NoHelper /\ block = NoBlock

NewFrame ==
    UNCHANGED <<dist, scanned, config, resolved, plan, groupsToDeploy, idx,
                pendingUrl, results, calls, fileWrites, history, builds, proc,
                runtime, helper, block>>

\* newCommand lines 15-17: the command is run with a name and a target
NewCommand ==
    /\ pc \in {"idle", "created", "threw"} /\ run < MaxRuns
    /\ \E name \in NewNames, target \in {Undef, T_deno} :
          opts' = [NoOpts EXCEPT !.packageName = name, !.target = target]
    /\ pc' = "scaffold"
    /\ run' = run + 1
    /\ mut' = NoMut
    /\ UNCHANGED <<file, dir>>
    /\ NewFrame

\* newCommand line 21: await scaffoldPackage
ScaffoldPackage ==
    /\ pc = "scaffold"
    /\ \E r \in {scaffoldPackage(dir, opts.packageName)} :
          /\ dir' = r.entries
          /\ pc' = IF r.threw THEN "threw" ELSE "config"
    /\ UNCHANGED <<file, opts, run, mut>>
    /\ NewFrame

\* newCommand lines 24-31: the entry is { target } or { colocateWith: 'root' }
\* and updateConfigAddPackage is awaited; nothing catches what it throws
UpdateConfig ==
    /\ pc = "config"
    /\ \E cfg \in {IF Truthy(opts.target)
                   THEN Deploy(opts.target, Undef, Undef)
                   ELSE Deploy(Undef, N_root, Undef)} :
       \E r \in {updateConfigAddPackage(file, opts.packageName, cfg)} :
          /\ mut' = [op |-> "add", name |-> opts.packageName, deploy |-> cfg,
                     before |-> file, threw |-> r.threw, err |-> r.err,
                     writes |-> r.writes]
          /\ file' = AfterWrites(file, r.writes)
          /\ pc' = IF r.threw THEN "threw" ELSE "created"
    /\ UNCHANGED <<dir, opts, run>>
    /\ NewFrame

NextNew ==
    \/ NewCommand
    \/ ScaffoldPackage
    \/ UpdateConfig

SpecNew ==
    InitNew /\ [][NextNew]_vars

\* C30: when updateConfigAddPackage has thrown after scaffoldPackage made
\* the package directory, packages/ holds no directory of that name
C30_NewIsAllOrNothing ==
    (pc = "threw" /\ mut.op = "add" /\ mut.threw) =>
        \A i \in 1..Len(dir) : dir[i].name # opts.packageName

====
